---- MODULE Spec2Model ----
(***************************************************************************)
(* A model of the path tracer jeffreyrosenbluth/ray: the parallel pixel    *)
(* dispatcher (render.rs) and the intersection layer (aabb.rs, bvh.rs,     *)
(* object.rs, sphere.rs, rect.rs).                                         *)
(*                                                                         *)
(* Numbers.  f32 values are modelled on an integer grid with exact         *)
(* arithmetic: a finite value is an integer n with |n| <= FloatMax, and    *)
(* PInf, NInf and NaNv stand for +infinity, -infinity and NaN.  FloatMax   *)
(* stands for f32::MAX (the largest finite value).  Lengths are counted in *)
(* units of 0.0001, so that the padding of a rectangle's box (0.0001) is 1 *)
(* and the shadow epsilon 0.001 is 10.  Rounding of f32 is not modelled.   *)
(***************************************************************************)
EXTENDS Integers, Sequences, FiniteSets, TLC

VARIABLES
    \* ---- render.rs: the dispatcher ----
    width,      \* environment.width()
    height,     \* environment.height()
    spp,        \* environment.samples_per_pixel()
    j,          \* the scanline of the serial driver's loop (height-1 down to 0)
    pc,         \* where the serial driver is: "map", "write", "done" ("off": not rendering)
    slots,      \* the parallel map's result slots of the current scanline, by pixel index
    finished,   \* the pixel indices of the current scanline in the order the workers finished
    scanline,   \* the collected Vec<Color> the driver iterates over
    k,          \* the position of the driver's `for pixel_color in scanline`
    data,       \* the image buffer, Vec<u8>
    scanIdx,    \* history: the pixel index each entry of `scanline` was computed for
    computed,   \* history: the pixel colour computed for <<i, j>>
    appended,   \* history: the pixels <<i, j>> in the order their bytes were appended
    \* ---- bvh.rs, object.rs: a scene, its BVH and a ray query ----
    gphase,     \* "scene": the list is populated; "built": BvhNode::new returned;
                \* "aborted": it panicked; "endless": it calls itself without end;
                \* "cast": a ray was queried ("off": not used)
    objects,    \* Objects.objects, the list handed to BvhNode::new
    prims,      \* history: the list as it was when BvhNode::new was called
    bvh,        \* the node BvhNode::new returned
    axesUsed,   \* history: the axes the calls of BvhNode::new drew, in call order
    range,      \* history: <<start, end>> of the outermost BvhNode::new call
    ray,        \* the ray of the last query
    recBvh,     \* what BvhNode::hit returned for it
    recList,    \* what Objects::hit over `prims` returned for it
    \* ---- aabb.rs: surrounding_box applied to two boxes ----
    boxA,       \* the first box
    boxB,       \* the second box
    boxU,       \* surrounding_box(boxA, boxB)
    boxAE,      \* surrounding_box(boxA, Aabb::empty())
    boxEA,      \* surrounding_box(Aabb::empty(), boxA)
    \* ---- object.rs: one ray queried against an object and its wrappers ----
    child,      \* the wrapped object
    wOffset,    \* the offset of the Translate wrapper
    wray,       \* the ray of the query
    recChild,   \* what child.hit returned
    recFlip,    \* what FlipFace(child).hit returned
    recFlipFlip, \* what FlipFace(FlipFace(child)).hit returned
    recBack,    \* what Translate(Translate(child, wOffset), -wOffset).hit returned
    \* ---- object.rs: one ray queried against an object and Rotate around it ----
    tChild,     \* the wrapped object
    tAxis,      \* the axis of both Rotate wrappers
    tDegrees,   \* the angle of the inner Rotate; the outer one has -tDegrees
    tRay,       \* the ray of the query
    recPlain,   \* what tChild.hit returned
    recTurn,    \* what Rotate(axis, Rotate(axis, tChild, tDegrees), -tDegrees).hit returned
    \* ---- render.rs: one call of ray_color and the calls nested in it ----
    cDepth,     \* `depth` of the outermost call
    cLights,    \* `lights`
    cDebug,     \* whether the build has debug assertions
    cStack,     \* the invocations waiting for their recursive call, outermost first
    cArg,       \* `depth` of the invocation about to run
    cPhase,     \* "call": an invocation is about to run; "return": one has returned;
                \* "done": the outermost returned; "panic": the thread panicked
    cCalls,     \* history: the number of invocations that ran
    cValue,     \* the colour the invocation that ran last returned
    \* ---- render.rs: the closure of one pixel, sample by sample ----
    pSpp,       \* environment.samples_per_pixel()
    pBackground, \* environment.background()
    pIdx,       \* the number of samples taken (iterations of the inner loop)
    pLast,      \* the colour ray_color returned for the last sample
    pAcc,       \* pixel_color
    pMiss,      \* history: every camera ray so far missed every object
    pBytes,     \* the bytes write_color pushed for the pixel
    pPhase,     \* "sample": in the loops; "written": write_color has run
    pCell,      \* history: <<s, t>> of the last pass of the inner loop
    pOffset,    \* history: <<s + random, t + random>> of that pass, in 2^-24ths
    \* ---- sphere.rs, material.rs, ray.rs: one call of a constructor or of scatter ----
    kFn,        \* the function called
    kArgs,      \* its arguments
    kDone,      \* whether the call has been made
    kResult     \* what it returned

rvars == <<width, height, spp, j, pc, slots, finished, scanline, k, data,
          scanIdx, computed, appended>>

gvars == <<gphase, objects, prims, bvh, axesUsed, range, ray, recBvh, recList>>

bvars == <<boxA, boxB, boxU, boxAE, boxEA>>

wvars == <<child, wOffset, wray, recChild, recFlip, recFlipFlip, recBack>>

tvars == <<tChild, tAxis, tDegrees, tRay, recPlain, recTurn>>

\* The state of the parts below the wrappers
cvars == <<cDepth, cLights, cDebug, cStack, cArg, cPhase, cCalls, cValue>>

pvars == <<pSpp, pBackground, pIdx, pLast, pAcc, pMiss, pBytes, pPhase, pCell, pOffset>>

kvars == <<kFn, kArgs, kDone, kResult>>

xvars == <<tvars, cvars, pvars, kvars>>

vars == <<rvars, gvars, bvars, wvars, xvars>>

\* `let x = e; F(x)`: e is evaluated once and F applied to its value
Bind(e, F(_)) == CHOOSE res \in {F(x) : x \in {e}} : TRUE

(***************************************************************************)
(* Bounds of the model.                                                    *)
(***************************************************************************)
MaxPixels == 4      \* width * height <= MaxPixels
MaxSpp == 2         \* samples_per_pixel <= MaxSpp
MaxObjs == 4        \* primitives in a list handed to BvhNode::new (construction)
MaxSamples == 4      \* samples_per_pixel in the single-pixel model
MaxDepth == 3        \* max_depth of ray_color
MaxTraceObjs == 2   \* primitives in a scene that rays are cast into
MaxRangeObjs == 3   \* primitives in a scene whose ranges are built

(***************************************************************************)
(* f32 on the integer grid.                                                *)
(***************************************************************************)
FloatMax == 1000000
PInf == FloatMax + 1
NInf == -PInf
NaNv == FloatMax + 2

IsNaN(x) == x = NaNv

\* f32 + f32
FAdd(a, b) ==
    IF IsNaN(a) \/ IsNaN(b) THEN NaNv
    ELSE IF a = PInf THEN (IF b = NInf THEN NaNv ELSE PInf)
    ELSE IF a = NInf THEN (IF b = PInf THEN NaNv ELSE NInf)
    ELSE IF b = PInf \/ b = NInf THEN b
    ELSE IF a + b > FloatMax THEN PInf
    ELSE IF a + b < -FloatMax THEN NInf
    ELSE a + b

\* -f32
FNeg(a) == IF IsNaN(a) THEN NaNv ELSE -a

\* f32 - f32
FSub(a, b) == FAdd(a, FNeg(b))

Sign(a) == IF a > 0 THEN 1 ELSE IF a < 0 THEN -1 ELSE 0

\* f32 * f32 (0 * infinity is NaN)
FMul(a, b) ==
    IF IsNaN(a) \/ IsNaN(b) THEN NaNv
    ELSE IF a \in {PInf, NInf} \/ b \in {PInf, NInf}
         THEN (IF a = 0 \/ b = 0 THEN NaNv
               ELSE IF Sign(a) * Sign(b) > 0 THEN PInf ELSE NInf)
    ELSE IF a * b > FloatMax THEN PInf
    ELSE IF a * b < -FloatMax THEN NInf
    ELSE a * b

\* f32 / f32 (x / 0 is an infinity, 0 / 0 is NaN).  A finite quotient is on
\* the grid for the inputs the model draws (see Exact below).
FDiv(a, b) ==
    IF IsNaN(a) \/ IsNaN(b) THEN NaNv
    ELSE IF b = 0 THEN (IF a = 0 THEN NaNv ELSE IF a > 0 THEN PInf ELSE NInf)
    ELSE IF b \in {PInf, NInf} THEN (IF a \in {PInf, NInf} THEN NaNv ELSE 0)
    ELSE IF a \in {PInf, NInf} THEN (IF Sign(a) * Sign(b) > 0 THEN PInf ELSE NInf)
    ELSE Sign(a) * Sign(b) * ((Sign(a) * a) \div (Sign(b) * b))

\* The comparisons of f32: every comparison with NaN is false.
FLt(a, b) == ~IsNaN(a) /\ ~IsNaN(b) /\ a < b
FGt(a, b) == FLt(b, a)
FLe(a, b) == ~IsNaN(a) /\ ~IsNaN(b) /\ a <= b

\* f32::min and f32::max: the other operand when one is NaN
FMin(a, b) == IF IsNaN(a) THEN b ELSE IF IsNaN(b) THEN a ELSE IF a < b THEN a ELSE b
FMax(a, b) == IF IsNaN(a) THEN b ELSE IF IsNaN(b) THEN a ELSE IF a > b THEN a ELSE b

(***************************************************************************)
(* Vectors (glam Vec3) and affine transforms (glam Mat4).                  *)
(***************************************************************************)
Vec(x, y, z) == <<x, y, z>>
VAdd(a, b) == [c \in 1..3 |-> FAdd(a[c], b[c])]
VSub(a, b) == [c \in 1..3 |-> FSub(a[c], b[c])]
VNeg(a) == [c \in 1..3 |-> FNeg(a[c])]
VScale(s, a) == [c \in 1..3 |-> FMul(s, a[c])]
Dot(a, b) == FAdd(FAdd(FMul(a[1], b[1]), FMul(a[2], b[2])), FMul(a[3], b[3]))
LengthSquared(a) == Dot(a, a)

\* Axis::order: the two in-plane axes and the constant axis (X = 1, Y = 2, Z = 3)
AxisOrder(axis) ==
    IF axis = 1 THEN <<2, 3, 1>> ELSE IF axis = 2 THEN <<1, 3, 2>> ELSE <<1, 2, 3>>

UnitVec(axis) == [c \in 1..3 |-> IF c = axis THEN 1 ELSE 0]

\* An affine transform: the rows m of its linear part and its translation t.
MatVec(m, v) == [c \in 1..3 |-> Dot(m[c], v)]
Transpose(m) == [c \in 1..3 |-> [d \in 1..3 |-> m[d][c]]]
MatMul(a, b) == [c \in 1..3 |-> [d \in 1..3 |-> Dot(a[c], Transpose(b)[d])]]

IDENTITY == [m |-> <<Vec(1, 0, 0), Vec(0, 1, 0), Vec(0, 0, 1)>>, t |-> Vec(0, 0, 0)]

\* Mat4::from_translation
FromTranslation(v) == [m |-> IDENTITY.m, t |-> v]

\* Mat4::from_rotation_x of a quarter turn: (x, y, z) -> (x, -z, y)
RotationX90 == [m |-> <<Vec(1, 0, 0), Vec(0, 0, -1), Vec(0, 1, 0)>>, t |-> Vec(0, 0, 0)]

\* Mat4::transform_point3 and Mat4::transform_vector3
TransformPoint3(tr, p) == VAdd(MatVec(tr.m, p), tr.t)
TransformVector3(tr, v) == MatVec(tr.m, v)

\* Mat4 * Mat4
Compose(a, b) == [m |-> MatMul(a.m, b.m), t |-> VAdd(MatVec(a.m, b.t), a.t)]

\* Mat4::inverse, for the rigid motions the model uses (the linear part is
\* orthogonal, so its inverse is its transpose)
Inverse(tr) == [m |-> Transpose(tr.m), t |-> VNeg(MatVec(Transpose(tr.m), tr.t))]

\* Mat4::transpose followed by transform_vector3
TransposeTransformVector3(tr, v) == MatVec(Transpose(tr.m), v)

(***************************************************************************)
(* Rays and hit records.                                                   *)
(***************************************************************************)
Ray(origin, direction, time) == [origin |-> origin, direction |-> direction, time |-> time]

\* Ray::at
At(r, t) == VAdd(r.origin, VScale(t, r.direction))

\* Ray::transform: the origin as a point, the direction as a vector
RayTransform(r, tr) ==
    Ray(TransformPoint3(tr, r.origin), TransformVector3(tr, r.direction), r.time)

None == [hit |-> FALSE]

HitRecord(p, normal, material, t, u, v, front_face) ==
    [hit |-> TRUE, p |-> p, normal |-> normal, material |-> material, t |-> t,
     u |-> u, v |-> v, front_face |-> front_face]

\* HitRecord::with_ray
WithRay(r, p, outward_normal, material, t, u, v) ==
    LET front_face == FLt(Dot(r.direction, outward_normal), 0)
    IN  HitRecord(p, IF front_face THEN outward_normal ELSE VNeg(outward_normal),
                  material, t, u, v, front_face)

\* HitRecord::set_face_normal
SetFaceNormal(rec, r, outward_normal) ==
    LET front_face == FLt(Dot(r.direction, outward_normal), 0)
    IN  [rec EXCEPT !.front_face = front_face,
                    !.normal = IF front_face THEN outward_normal ELSE VNeg(outward_normal)]

(***************************************************************************)
(* aabb.rs                                                                 *)
(***************************************************************************)
Aabb(box_min, box_max) == [box_min |-> box_min, box_max |-> box_max]

\* Aabb::empty
AabbEmpty == Aabb(Vec(FloatMax, FloatMax, FloatMax), Vec(-FloatMax, -FloatMax, -FloatMax))

\* One pass of the loop of Aabb::hit, for axis a: TRUE when the pass returns
\* false.  The narrowed t_min and t_max are `let` bindings of the loop body.
AabbAxisRejects(box, r, a, t_min, t_max) ==
    LET inv_d == FDiv(1, r.direction[a])
        ta == FMul(FSub(box.box_min[a], r.origin[a]), inv_d)
        tb == FMul(FSub(box.box_max[a], r.origin[a]), inv_d)
        t0 == IF FLt(inv_d, 0) THEN tb ELSE ta
        t1 == IF FLt(inv_d, 0) THEN ta ELSE tb
        lo == IF FGt(t0, t_min) THEN t0 ELSE t_min
        hi == IF FLt(t1, t_max) THEN t1 ELSE t_max
    IN  FLe(hi, lo)

\* The loop `for a in 0..3` of Aabb::hit from axis a on: the bindings of one
\* pass go out of scope at its end, so the next pass sees the function's own
\* t_min and t_max.
RECURSIVE AabbHitFrom(_, _, _, _, _)
AabbHitFrom(box, r, a, t_min, t_max) ==
    IF a > 3 THEN TRUE
    ELSE IF AabbAxisRejects(box, r, a, t_min, t_max) THEN FALSE
    ELSE AabbHitFrom(box, r, a + 1, t_min, t_max)

\* Aabb::hit
AabbHit(box, r, t_min, t_max) == AabbHitFrom(box, r, 1, t_min, t_max)

\* surrounding_box with the least corner taken for both corners
SurroundingBoxOfMins(box0, box1) ==
    Aabb([c \in 1..3 |-> FMin(box0.box_min[c], box1.box_min[c])],
         [c \in 1..3 |-> FMin(box0.box_max[c], box1.box_max[c])])

\* surrounding_box
SurroundingBox(box0, box1) ==
    Aabb([c \in 1..3 |-> FMin(box0.box_min[c], box1.box_min[c])],
         [c \in 1..3 |-> FMax(box0.box_max[c], box1.box_max[c])])

(***************************************************************************)
(* sphere.rs, rect.rs, object.rs: the primitives and the wrappers.         *)
(*                                                                         *)
(* A normal is kept up to a positive factor (normalize() and the division  *)
(* by a positive radius are not applied); the surface parameters u and v   *)
(* are kept as the pair of numbers they are computed from.                 *)
(***************************************************************************)

\* Sphere::new
SphereNew(center0, radius, material) ==
    [kind |-> "sphere", center0 |-> center0, center1 |-> center0, radius |-> radius,
     transform |-> IDENTITY, inv_transform |-> IDENTITY, material |-> material,
     time_range |-> <<0, 0>>]

\* Sphere::new_moving
SphereNewMoving(center0, center1, radius, material, time_range) ==
    [kind |-> "sphere", center0 |-> center0, center1 |-> center1, radius |-> radius,
     transform |-> IDENTITY, inv_transform |-> IDENTITY, material |-> material,
     time_range |-> time_range]

\* Rect::new
RectNew(axis, p0, q0, p1, q1, kk, material) ==
    [kind |-> "rect", axis |-> axis, p0 |-> p0, q0 |-> q0, p1 |-> p1, q1 |-> q1,
     k |-> kk, transform |-> IDENTITY, inv_transform |-> IDENTITY, material |-> material]

\* Cuboid::new: the six sides, in the order they are added
CuboidNew(box_min, box_max, material) ==
    [kind |-> "cuboid", box_min |-> box_min, box_max |-> box_max,
     sides |-> <<
        RectNew(3, box_min[1], box_min[2], box_max[1], box_max[2], box_max[3], material),
        RectNew(3, box_min[1], box_min[2], box_max[1], box_max[2], box_min[3], material),
        RectNew(2, box_min[1], box_min[3], box_max[1], box_max[3], box_max[2], material),
        RectNew(2, box_min[1], box_min[3], box_max[1], box_max[3], box_min[2], material),
        RectNew(1, box_min[2], box_min[3], box_max[2], box_max[3], box_max[1], material),
        RectNew(1, box_min[2], box_min[3], box_max[2], box_max[3], box_min[1], material)>>,
     transform |-> IDENTITY, inv_transform |-> IDENTITY, material |-> material]

\* Sphere::set_transform, Rect::set_transform
SetTransform(g, tr) == [g EXCEPT !.transform = tr, !.inv_transform = Inverse(tr)]

\* FlipFace::new, Translate::new
FlipFaceNew(object) == [kind |-> "flip", object |-> object]
TranslateNew(object, offset) == [kind |-> "translate", object |-> object, offset |-> offset]

\* Sphere::center
SphereCenter(s, time) ==
    IF s.time_range[1] >= s.time_range[2] THEN s.center0
    ELSE VAdd(s.center0,
              VScale(FDiv(FSub(time, s.time_range[1]), FSub(s.time_range[2], s.time_range[1])),
                     VSub(s.center1, s.center0)))

\* The integer part of the square root of x, lo * lo <= x < (hi + 1) * (hi + 1)
RECURSIVE SqrtBetween(_, _, _)
SqrtBetween(x, lo, hi) ==
    IF lo = hi THEN lo
    ELSE LET mid == (lo + hi + 1) \div 2
         IN  IF mid * mid <= x THEN SqrtBetween(x, mid, hi) ELSE SqrtBetween(x, lo, mid - 1)

\* f32::sqrt (exact on a perfect square; see Exact)
FSqrt(x) ==
    IF IsNaN(x) \/ x < 0 THEN NaNv
    ELSE IF x = PInf THEN PInf
    ELSE SqrtBetween(x, 0, IF x > 1000 THEN 1000 ELSE x)

\* The coefficients of the quadratic of Sphere::hit for the transformed ray r
SphereA(s, r) == LengthSquared(r.direction)
SphereHalfB(s, r) == Dot(VSub(r.origin, SphereCenter(s, r.time)), r.direction)
SphereC(s, r) ==
    FSub(LengthSquared(VSub(r.origin, SphereCenter(s, r.time))), FMul(s.radius, s.radius))
SphereDiscriminant(s, r) ==
    FSub(FMul(SphereHalfB(s, r), SphereHalfB(s, r)), FMul(SphereA(s, r), SphereC(s, r)))

\* sphere_uv, as the arguments of its atan2 and acos
SphereUV(n) == <<Vec(FNeg(n[3]), n[1], 0), Vec(FNeg(n[2]), 1, 0)>>

\* Sphere::hit
SphereHit(s, r0, t_min, t_max) ==
    LET r == RayTransform(r0, s.inv_transform)
        a == SphereA(s, r)
        half_b == SphereHalfB(s, r)
        discriminant == SphereDiscriminant(s, r)
        sqrtd == FSqrt(discriminant)
        root1 == FDiv(FSub(FNeg(half_b), sqrtd), a)
        root2 == FDiv(FAdd(FNeg(half_b), sqrtd), a)
        out(x) == FLt(x, t_min) \/ FLt(t_max, x)
        root == IF out(root1) THEN root2 ELSE root1
        p == At(r, root)
        outward_normal ==
            VScale(Sign(s.radius),
                   TransposeTransformVector3(s.inv_transform, VSub(p, SphereCenter(s, r.time))))
        uv == SphereUV(outward_normal)
    IN  IF FLt(discriminant, 0) THEN None
        ELSE IF out(root1) /\ out(root2) THEN None
        ELSE WithRay(r, TransformPoint3(s.transform, p), outward_normal, s.material,
                     root, uv[1], uv[2])

\* Rect::hit
RectHit(g, r0, t_min, t_max) ==
    LET r == RayTransform(r0, g.inv_transform)
        p == AxisOrder(g.axis)[1]
        q == AxisOrder(g.axis)[2]
        s == AxisOrder(g.axis)[3]
        t == FDiv(FSub(g.k, r.origin[s]), r.direction[s])
        x == FAdd(r.origin[p], FMul(t, r.direction[p]))
        y == FAdd(r.origin[q], FMul(t, r.direction[q]))
        u == Vec(FSub(x, g.p0), FSub(g.p1, g.p0), 1)
        v == Vec(FSub(y, g.q0), FSub(g.q1, g.q0), 1)
        pt == At(r, t)
        outward_normal == TransposeTransformVector3(g.inv_transform, UnitVec(g.axis))
    IN  IF FLt(t, t_min) \/ FGt(t, t_max) THEN None
        ELSE IF FLt(x, g.p0) \/ FGt(x, g.p1) \/ FLt(y, g.q0) \/ FGt(y, g.q1) THEN None
        ELSE WithRay(r, TransformPoint3(g.transform, pt), outward_normal, g.material,
                     t, u, v)

\* Sphere::bounding_box
SphereBoundingBox(s, time_range) ==
    LET rad == Vec(s.radius, s.radius, s.radius)
        box0 == Aabb(VSub(SphereCenter(s, s.time_range[1]), rad),
                     VAdd(SphereCenter(s, time_range[1]), rad))
        box1 == Aabb(VSub(SphereCenter(s, s.time_range[2]), rad),
                     VAdd(SphereCenter(s, time_range[2]), rad))
    IN  SurroundingBox(box0, box1)

\* Rect::bounding_box: the rectangle padded by 0.0001 on its constant axis
RectBoundingBox(g) ==
    LET p == AxisOrder(g.axis)[1]
        q == AxisOrder(g.axis)[2]
        s == AxisOrder(g.axis)[3]
    IN  Aabb([c \in 1..3 |-> IF c = p THEN g.p0 ELSE IF c = q THEN g.q0 ELSE FSub(g.k, 1)],
             [c \in 1..3 |-> IF c = p THEN g.p1 ELSE IF c = q THEN g.q1 ELSE FAdd(g.k, 1)])

\* Object::bounding_box of Geometry and of the wrappers (every object of the
\* model is boundable, so the Option is always Some)
RECURSIVE BoundingBox(_, _)
BoundingBox(g, time_range) ==
    CASE g.kind = "sphere" -> SphereBoundingBox(g, time_range)
      [] g.kind = "rect" -> RectBoundingBox(g)
      [] g.kind = "cuboid" -> Aabb(g.box_min, g.box_max)
      [] g.kind = "bvh" -> g.bbox
      [] g.kind = "flip" -> BoundingBox(g.object, time_range)
      [] g.kind = "translate" ->
            Aabb(VAdd(BoundingBox(g.object, time_range).box_min, g.offset),
                 VAdd(BoundingBox(g.object, time_range).box_max, g.offset))
      [] g.kind = "rotate" -> g.bbox

\* theta.sin() and theta.cos() of Rotate::new, for the angles that keep the
\* grid: whole multiples of 90 degrees, taken as exact
SinDeg(degrees) == <<0, 1, 0, -1>>[((degrees \div 90) % 4) + 1]
CosDeg(degrees) == <<1, 0, -1, 0>>[((degrees \div 90) % 4) + 1]

\* The corners of a box in the order of the loops `for i`, `for j`, `for k`
BoxCorners(b) ==
    [n \in 1..8 |->
        LET i == (n - 1) \div 4
            jj == ((n - 1) \div 2) % 2
            kk == (n - 1) % 2
        IN  Vec(FAdd(FMul(i, b.box_max[1]), FMul(1 - i, b.box_min[1])),
                FAdd(FMul(jj, b.box_max[2]), FMul(1 - jj, b.box_min[2])),
                FAdd(FMul(kk, b.box_max[3]), FMul(1 - kk, b.box_min[3])))]

\* `tester` of Rotate::new for one corner
RotateTester(axis, sin, cos, coords) ==
    LET p == AxisOrder(axis)[1]
        q == AxisOrder(axis)[2]
        newp == FAdd(FMul(cos, coords[p]), FMul(sin, coords[q]))
        newq == FAdd(FMul(FNeg(sin), coords[p]), FMul(cos, coords[q]))
    IN  [c \in 1..3 |-> IF c = p THEN newp ELSE IF c = q THEN newq ELSE coords[c]]

\* The loop `for c in 0..3` of Rotate::new for one corner: both corners of
\* `rect` are updated with min
RotateGrow(rect, tester) ==
    Aabb([c \in 1..3 |-> FMin(rect.box_min[c], tester[c])],
         [c \in 1..3 |-> FMin(rect.box_max[c], tester[c])])

\* `rect` of Rotate::new after the corners n..8
RECURSIVE RotateRect(_, _, _, _, _, _)
RotateRect(axis, sin, cos, corners, n, rect) ==
    IF n > 8 THEN rect
    ELSE Bind(RotateGrow(rect, RotateTester(axis, sin, cos, corners[n])),
              LAMBDA grown : RotateRect(axis, sin, cos, corners, n + 1, grown))

\* Rotate::new
RotateNew(axis, object, degrees) ==
    [kind |-> "rotate", axis |-> axis, object |-> object,
     sin |-> SinDeg(degrees), cos |-> CosDeg(degrees),
     bbox |-> RotateRect(axis, SinDeg(degrees), CosDeg(degrees),
                         BoxCorners(BoundingBox(object, <<0, 1>>)), 1, AabbEmpty)]

\* The ray Rotate::hit hands to the wrapped object
RotatedRay(g, r) ==
    LET p == AxisOrder(g.axis)[1]
        q == AxisOrder(g.axis)[2]
        Turn(v) == [c \in 1..3 |->
                      IF c = p THEN FSub(FMul(g.cos, v[p]), FMul(g.sin, v[q]))
                      ELSE IF c = q THEN FAdd(FMul(g.sin, v[p]), FMul(g.cos, v[q]))
                      ELSE v[c]]
    IN  Ray(Turn(r.origin), Turn(r.direction), r.time)

\* Rotate::hit, given the rotated ray and the record the wrapped object
\* returned for it
RotateHit(g, rotated_r, rec) ==
    LET p == AxisOrder(g.axis)[1]
        q == AxisOrder(g.axis)[2]
        Back(v) == [c \in 1..3 |->
                      IF c = p THEN FAdd(FMul(g.cos, v[p]), FMul(g.sin, v[q]))
                      ELSE IF c = q THEN FAdd(FMul(FNeg(g.sin), v[p]), FMul(g.cos, v[q]))
                      ELSE v[c]]
    IN  IF rec.hit
        THEN SetFaceNormal([rec EXCEPT !.p = Back(rec.p)], rotated_r, Back(rec.normal))
        ELSE None

\* FlipFace::hit that turns the normal over as well
FlipFaceHitTurnsNormal(rec) ==
    IF rec.hit
    THEN [rec EXCEPT !.front_face = ~rec.front_face, !.normal = VNeg(rec.normal)]
    ELSE None

\* FlipFace::hit, given the record the wrapped object returned
FlipFaceHit(rec) ==
    IF rec.hit THEN [rec EXCEPT !.front_face = ~rec.front_face] ELSE None

\* Translate::hit, given the moved ray and the record the wrapped object
\* returned for it
TranslateHit(offset, moved_r, rec) ==
    IF rec.hit
    THEN SetFaceNormal([rec EXCEPT !.p = VAdd(rec.p, offset)], moved_r, rec.normal)
    ELSE None

\* BvhNode::hit, given the records of the two children: right_record.or(left_record)
BvhCombine(left_record, right_record) ==
    IF right_record.hit THEN right_record ELSE left_record

\* Object::hit of Geometry, of the wrappers and of Objects
RECURSIVE Hit(_, _, _, _)
RECURSIVE ObjectsHitFrom(_, _, _, _, _, _)

\* The loop of Objects::hit from position i on
ObjectsHitFrom(objs, i, r, t_min, closest_so_far, rec) ==
    IF i > Len(objs) THEN rec
    ELSE Bind(Hit(objs[i], r, t_min, closest_so_far),
              LAMBDA new_rec :
                  IF new_rec.hit
                  THEN ObjectsHitFrom(objs, i + 1, r, t_min, new_rec.t, new_rec)
                  ELSE ObjectsHitFrom(objs, i + 1, r, t_min, closest_so_far, rec))

\* Objects::hit
ObjectsHit(objs, r, t_min, t_max) == ObjectsHitFrom(objs, 1, r, t_min, t_max, None)

\* BvhNode::hit
BvhHit(node, r, t_min, t_max) ==
    IF ~AabbHit(node.bbox, r, t_min, t_max) THEN None
    ELSE Bind(Hit(node.left.g, r, t_min, t_max),
              LAMBDA left_record :
                  Bind(IF left_record.hit THEN left_record.t ELSE t_max,
                       LAMBDA t : BvhCombine(left_record, Hit(node.right.g, r, t_min, t))))

Hit(g, r, t_min, t_max) ==
    CASE g.kind = "sphere" -> SphereHit(g, r, t_min, t_max)
      [] g.kind = "rect" -> RectHit(g, r, t_min, t_max)
      [] g.kind = "cuboid" -> ObjectsHit(g.sides, r, t_min, t_max)
      [] g.kind = "bvh" -> BvhHit(g, r, t_min, t_max)
      [] g.kind = "flip" -> FlipFaceHit(Hit(g.object, r, t_min, t_max))
      [] g.kind = "translate" ->
            LET moved_r == Ray(VSub(r.origin, g.offset), r.direction, r.time)
            IN  TranslateHit(g.offset, moved_r, Hit(g.object, moved_r, t_min, t_max))
      [] g.kind = "rotate" ->
            Bind(RotatedRay(g, r),
                 LAMBDA rotated_r : RotateHit(g, rotated_r, Hit(g.object, rotated_r, t_min, t_max)))

(***************************************************************************)
(* bvh.rs: BvhNode::new.                                                   *)
(*                                                                         *)
(* A child of a node is an Arc<Geometry>: the record [arc, g] of the       *)
(* allocation's number and the geometry it holds; a clone of an Arc has    *)
(* the same number.  `axes` are the values rng.gen_range(0..3) returns to  *)
(* the successive calls of BvhNode::new over two objects or more (as       *)
(* 1..3); a call over one object draws a value that nothing reads.  `arc`  *)
(* is the number of the next allocation.  The result is [panic, node,      *)
(* objs, axes, arc]: whether the call aborted, the node, and the list, the *)
(* random values and the allocation counter it leaves behind.              *)
(***************************************************************************)
Aborted == [panic |-> TRUE, endless |-> FALSE]

\* The outcome of a call that calls itself with its own arguments
Endless == [panic |-> TRUE, endless |-> TRUE]

\* BvhNode::comparator
Comparator(x, y, axis) ==
    LET bx == BoundingBox(x, <<0, 0>>).box_min[axis]
        by == BoundingBox(y, <<0, 0>>).box_min[axis]
    IN  IF FLt(bx, by) THEN "Less" ELSE IF FGt(bx, by) THEN "Greater" ELSE "Equal"

\* Where a stable sort puts x into the sorted list: after the elements that
\* do not compare Greater than it
RECURSIVE InsertSorted(_, _, _)
InsertSorted(sorted, x, axis) ==
    IF sorted = <<>> THEN <<x>>
    ELSE IF Comparator(Head(sorted), x, axis) = "Greater" THEN <<x>> \o sorted
    ELSE <<Head(sorted)>> \o InsertSorted(Tail(sorted), x, axis)

\* objects.objects.sort_by(|x, y| comparator(x, y)): the whole list, stably
RECURSIVE SortBy(_, _)
SortBy(objs, axis) ==
    IF objs = <<>> THEN <<>>
    ELSE Bind(SortBy(SubSeq(objs, 1, Len(objs) - 1), axis),
              LAMBDA sorted : InsertSorted(sorted, objs[Len(objs)], axis))

\* The arm `1 =>` with the second child a copy in an allocation of its own
BvhOneCopies(objs, arc) ==
    IF Len(objs) < 1 THEN Aborted
    ELSE [panic |-> FALSE, left |-> [arc |-> arc, g |-> objs[1]],
          right |-> [arc |-> arc + 1, g |-> objs[1]], objs |-> Tail(objs), arc |-> arc + 2]

\* The arm `1 =>`: objects.objects.remove(0), and the Arc and its clone
BvhOne(objs, arc) ==
    IF Len(objs) < 1 THEN Aborted
    ELSE [panic |-> FALSE, left |-> [arc |-> arc, g |-> objs[1]],
          right |-> [arc |-> arc, g |-> objs[1]], objs |-> Tail(objs), arc |-> arc + 1]

\* The arm `2 =>` keeping the order of the list whatever the comparator says
BvhTwoAsListed(objs, axis, arc) ==
    IF Len(objs) < 2 THEN Aborted
    ELSE [panic |-> FALSE, left |-> [arc |-> arc, g |-> objs[1]],
          right |-> [arc |-> arc + 1, g |-> objs[2]],
          objs |-> Tail(Tail(objs)), arc |-> arc + 2]

\* The arm `2 =>`: two objects.objects.remove(0), ordered by the comparator
BvhTwo(objs, axis, arc) ==
    IF Len(objs) < 2 THEN Aborted
    ELSE LET first == [arc |-> arc, g |-> objs[1]]
             second == [arc |-> arc + 1, g |-> objs[2]]
         IN  IF Comparator(first.g, second.g, axis) = "Less"
             THEN [panic |-> FALSE, left |-> first, right |-> second,
                   objs |-> Tail(Tail(objs)), arc |-> arc + 2]
             ELSE [panic |-> FALSE, left |-> second, right |-> first,
                   objs |-> Tail(Tail(objs)), arc |-> arc + 2]

\* let mid = start + object_span / 2
BvhMid(start, object_span) == start + (object_span \div 2)

\* The bbox of a node taken from its left child alone
BvhBoxOfLeft(left, right, time) ==
    BoundingBox(left.g, time)

\* The bbox of a node: surrounding_box of the children's bounding boxes
BvhBox(left, right, time) ==
    SurroundingBox(BoundingBox(left.g, time), BoundingBox(right.g, time))

\* The node built from the two children
BvhNodeOf(left, right, time) ==
    [kind |-> "bvh", left |-> left, right |-> right, bbox |-> BvhBox(left, right, time),
     transform |-> IDENTITY, inv_transform |-> IDENTITY]

\* BvhNode::new.  `end - start` underflows when end < start.  In the arm
\* `_ =>` the call for the left child has the range start..mid: with
\* mid = end (object_span = 0) it is this call over again, on the list this
\* call has sorted, and so is every call nested in it.
RECURSIVE BvhNew(_, _, _, _, _, _)
BvhNew(objs, start, end, time, axes, arc) ==
    LET axis == IF axes = <<>> THEN 1 ELSE Head(axes)
        object_span == end - start
    IN  IF end < start THEN Aborted
        ELSE IF object_span = 1 THEN
            LET one == BvhOne(objs, arc)
            IN  IF one.panic THEN Aborted
                ELSE [panic |-> FALSE, node |-> BvhNodeOf(one.left, one.right, time),
                      objs |-> one.objs, axes |-> axes, arc |-> one.arc]
        ELSE IF object_span = 2 THEN
            LET two == BvhTwo(objs, axis, arc)
            IN  IF two.panic THEN Aborted
                ELSE [panic |-> FALSE, node |-> BvhNodeOf(two.left, two.right, time),
                      objs |-> two.objs, axes |-> Tail(axes), arc |-> two.arc]
        ELSE
            Bind(SortBy(objs, axis), LAMBDA sorted :
            Bind(BvhMid(start, object_span), LAMBDA mid :
            IF mid = end THEN Endless
            ELSE
            Bind(BvhNew(sorted, start, mid, time, Tail(axes), arc), LAMBDA l :
                IF l.panic THEN l
                ELSE Bind(BvhNew(l.objs, mid, end, time, l.axes, l.arc + 1), LAMBDA r :
                    IF r.panic THEN r
                    ELSE [panic |-> FALSE,
                          node |-> BvhNodeOf([arc |-> l.arc, g |-> l.node],
                                             [arc |-> r.arc, g |-> r.node], time),
                          objs |-> r.objs, axes |-> r.axes, arc |-> r.arc + 1]))))

\* How many calls of BvhNode::new over two objects or more a call over
\* `span` objects makes, itself included
RECURSIVE Calls(_)
Calls(span) ==
    IF span <= 1 THEN 0
    ELSE IF span = 2 THEN 1
    ELSE 1 + Calls(span \div 2) + Calls(span - (span \div 2))

(***************************************************************************)
(* render.rs                                                               *)
(***************************************************************************)
BLACK == <<0, 0, 0>>

\* The colours ray_color returns for one sample, in sixteenths: a miss of every
\* object (black background), a lit surface, and a degenerate sample (NaN).
SampleColours == {BLACK, <<1, 4, 9>>, <<NaNv, NaNv, NaNv>>}

NoColour == <<-1, -1, -1>>

\* (x as f32).sqrt() as u32
ISqrt(x) == CHOOSE r \in 0..x : r * r <= x /\ (r + 1) * (r + 1) > x

\* A variant of NanGuard: only rc.x is guarded
NanGuardX(rc) == [c \in 1..3 |-> IF c = 1 /\ IsNaN(rc[c]) THEN 0 ELSE rc[c]]

\* `if rc.x.is_nan() { rc.x = 0.0 }` for the three channels
NanGuard(rc) == [c \in 1..3 |-> IF IsNaN(rc[c]) THEN 0 ELSE rc[c]]

\* pixel_color += rc
AddColour(a, b) == [c \in 1..3 |-> FAdd(a[c], b[c])]

\* The body of the closure for one pixel: the n*n samples, in order, each
\* guarded and added; `samples` are the colours ray_color returned.
RECURSIVE Accumulate(_, _, _)
Accumulate(samples, from, acc) ==
    IF from > Len(samples) THEN acc
    ELSE Accumulate(samples, from + 1, AddColour(acc, NanGuard(samples[from])))

PixelColour(samples) == Accumulate(samples, 1, BLACK)

SamplesPerAxis(s) == ISqrt(s)

\* (255.999 * (scale * r).sqrt()) as u8, r in sixteenths, scale = 1 / samples:
\* the greatest b in 0..255 with b <= 255.999 * sqrt(r / (16 * samples)); the
\* cast saturates, and NaN casts to 0.
ToU8(r, samples) ==
    IF IsNaN(r) \/ r <= 0 \/ samples = 0 THEN (IF r > 0 /\ ~IsNaN(r) THEN 255 ELSE 0)
    ELSE IF r = PInf THEN 255
    ELSE LET ok(b) == b * b * samples * 16 <= 65535 * r + ((488001 * r) \div 1000000)
         IN  CHOOSE b \in 0..255 : ok(b) /\ (b = 255 \/ ~ok(b + 1))

WriteColorBGR(buf, pixel_color, samples) ==
    buf \o <<ToU8(pixel_color[3], samples), ToU8(pixel_color[2], samples),
             ToU8(pixel_color[1], samples)>>

\* write_color: three pushes, R then G then B
WriteColor(buf, pixel_color, samples) ==
    buf \o <<ToU8(pixel_color[1], samples), ToU8(pixel_color[2], samples),
             ToU8(pixel_color[3], samples)>>

CollectByCompletion(res, order) == [x \in 1..Len(order) |-> res[order[x]]]

\* .collect() of an indexed parallel iterator: the results by pixel index,
\* whatever the order `order` in which the workers produced them
Collect(res, order) == [x \in 1..Len(order) |-> res[x - 1]]

Pending == {i \in 0..(width - 1) : slots[i] = NoColour}

\* The box side of the state when surrounding_box is not exercised
NoBox == [none |-> TRUE]

BoxOff ==
    /\ boxA = NoBox /\ boxB = NoBox /\ boxU = NoBox /\ boxAE = NoBox /\ boxEA = NoBox

\* The wrapper side of the state when no wrapper is queried
WrapOff ==
    /\ child = None /\ wOffset = <<0, 0, 0>> /\ wray = None
    /\ recChild = None /\ recFlip = None /\ recFlipFlip = None /\ recBack = None

\* The Rotate side of the state when it is not used
TurnOff ==
    /\ tChild = None /\ tAxis = 1 /\ tDegrees = 0 /\ tRay = None
    /\ recPlain = None /\ recTurn = None

\* The integrator side of the state when it is not used
ColorOff ==
    /\ cDepth = 0 /\ cLights = None /\ cDebug = FALSE /\ cStack = <<>>
    /\ cArg = 0 /\ cPhase = "off" /\ cCalls = 0 /\ cValue = <<0, 0, 0>>

\* The single-pixel side of the state when it is not used
PixelOff ==
    /\ pSpp = 0 /\ pBackground = <<0, 0, 0>> /\ pIdx = 0 /\ pLast = <<0, 0, 0>>
    /\ pAcc = <<0, 0, 0>> /\ pMiss = TRUE /\ pBytes = <<>> /\ pPhase = "off"
    /\ pCell = <<0, 0>> /\ pOffset = <<0, 0>>

\* The single-call side of the state when it is not used
CallOff ==
    /\ kFn = "off" /\ kArgs = None /\ kDone = FALSE /\ kResult = None

ExtraOff ==
    /\ TurnOff
    /\ ColorOff
    /\ PixelOff
    /\ CallOff

\* The scene side of the state when no BVH is built
GeomOff ==
    /\ gphase = "off"
    /\ objects = <<>>
    /\ prims = <<>>
    /\ bvh = None
    /\ axesUsed = <<>>
    /\ range = <<0, 0>>
    /\ ray = None
    /\ recBvh = None
    /\ recList = None

InitRender ==
    /\ ExtraOff
    /\ GeomOff
    /\ BoxOff
    /\ WrapOff
    /\ width \in 0..MaxPixels
    /\ height \in 0..MaxPixels
    /\ width * height <= MaxPixels
    /\ spp \in 1..MaxSpp
    /\ j = height - 1
    /\ pc = IF height = 0 THEN "done" ELSE "map"
    /\ slots = [i \in 0..(width - 1) |-> NoColour]
    /\ finished = <<>>
    /\ scanline = <<>>
    /\ k = 0
    /\ data = <<>>
    /\ scanIdx = <<>>
    /\ computed = {}
    /\ appended = <<>>

PixelWorkPushes(i) ==
    /\ pc = "map"
    /\ i \in Pending
    /\ \E samples \in [1..(SamplesPerAxis(spp) * SamplesPerAxis(spp)) -> SampleColours] :
          /\ slots' = [slots EXCEPT ![i] = PixelColour(samples)]
          /\ data' = WriteColor(data, PixelColour(samples), spp)
          /\ computed' = computed \cup {<<i, j, PixelColour(samples)>>}
    /\ finished' = Append(finished, i)
    /\ appended' = Append(appended, <<i, j>>)
    /\ UNCHANGED <<width, height, spp, j, pc, scanline, k, scanIdx, gvars, bvars, wvars, xvars>>

\* A worker runs the closure of `.map(|i| ...)` for pixel i of scanline j.
PixelWork(i) ==
    /\ pc = "map"
    /\ i \in Pending
    /\ \E samples \in [1..(SamplesPerAxis(spp) * SamplesPerAxis(spp)) -> SampleColours] :
          /\ slots' = [slots EXCEPT ![i] = PixelColour(samples)]
          /\ computed' = computed \cup {<<i, j, PixelColour(samples)>>}
    /\ finished' = Append(finished, i)
    /\ UNCHANGED <<width, height, spp, j, pc, scanline, k, data, scanIdx, appended, gvars, bvars, wvars, xvars>>

\* The parallel map returns once every pixel of the scanline is computed.
CollectScanline ==
    /\ pc = "map"
    /\ Pending = {}
    /\ scanline' = Collect(slots, finished)
    /\ scanIdx' = Collect([i \in 0..(width - 1) |-> i], finished)
    /\ k' = 1
    /\ pc' = "write"
    /\ UNCHANGED <<width, height, spp, j, slots, finished, data, computed, appended, gvars, bvars, wvars, xvars>>

\* One iteration of `for pixel_color in scanline { write_color(..) }`.
WritePixel ==
    /\ pc = "write"
    /\ k <= Len(scanline)
    /\ data' = WriteColor(data, scanline[k], spp)
    /\ appended' = Append(appended, <<scanIdx[k], j>>)
    /\ k' = k + 1
    /\ UNCHANGED <<width, height, spp, j, pc, slots, finished, scanline, scanIdx, computed, gvars, bvars, wvars, xvars>>

\* The end of the inner loop: the next scanline of `for j in (0..h).rev()`.
NextScanline ==
    /\ pc = "write"
    /\ k > Len(scanline)
    /\ j' = j - 1
    /\ pc' = IF j = 0 THEN "done" ELSE "map"
    /\ slots' = [i \in 0..(width - 1) |-> NoColour]
    /\ finished' = <<>>
    /\ scanline' = <<>>
    /\ scanIdx' = <<>>
    /\ k' = 0
    /\ UNCHANGED <<width, height, spp, data, computed, appended, gvars, bvars, wvars, xvars>>

NextRender ==
    \/ \E i \in 0..(MaxPixels + 1) : PixelWork(i)
    \/ CollectScanline
    \/ WritePixel
    \/ NextScanline

SpecRender == InitRender /\ [][NextRender]_vars

(***************************************************************************)
(* Scenes and ray queries.                                                 *)
(***************************************************************************)

\* The dispatcher side of the state when no image is rendered
RenderOff ==
    /\ width = 0 /\ height = 0 /\ spp = 1 /\ j = -1 /\ pc = "off"
    /\ slots = <<>> /\ finished = <<>> /\ scanline = <<>> /\ k = 0 /\ data = <<>>
    /\ scanIdx = <<>> /\ computed = {} /\ appended = <<>>

\* The exposure interval handed to BvhNode::new (scenes.rs: 0.0..1.0)
Exposure == <<0, 1>>

\* The shadow epsilon and the far limit of ray_color's world.hit(r, 0.001, INFINITY)
TMin == 10
TMax == FloatMax

\* The primitives scenes are made of: a sphere, a sphere moved away from the
\* origin by set_transform, a rectangle, a rectangle turned a quarter about X
\* by set_transform, and a cuboid.  Each has its own material.
Catalogue == {
    SphereNew(Vec(0, 0, 0), 10, 1),
    SetTransform(SphereNew(Vec(0, 0, 0), 5, 2), FromTranslation(Vec(30, 0, 0))),
    RectNew(3, -10, -10, 10, 10, 20, 3),
    SetTransform(RectNew(3, -10, -10, 10, 10, 0, 4), RotationX90),
    CuboidNew(Vec(20, -10, -10), Vec(40, 10, 10), 5) }

\* The lists of at most n distinct primitives
Scenes(n) ==
    {sc \in UNION {[1..m -> Catalogue] : m \in 0..n} :
        \A a, b \in DOMAIN sc : a # b => sc[a] # sc[b]}

\* The same lists with the primitives in the order of the catalogue, one
\* list per set of primitives (rays are cast into these)
OrderedScenes(n) ==
    {sc \in Scenes(n) : \A a, b \in DOMAIN sc : a < b => sc[a].material < sc[b].material}

Directions == {d \in {-1, 0, 1} \X {-1, 0, 1} \X {-1, 0, 1} : d # <<0, 0, 0>>}

RayOrigins == {0, 30} \X {0, 40} \X {-40, 0}

Rays == {Ray(o, d, 0) : o \in RayOrigins, d \in Directions}

\* The rays whose intersections with g are on the grid: for a sphere, the
\* discriminant is negative or a perfect square and both roots are integers.
RECURSIVE Exact(_, _)
Exact(g, r0) ==
    CASE g.kind = "sphere" ->
            LET r == RayTransform(r0, g.inv_transform)
                a == SphereA(g, r)
                d == SphereDiscriminant(g, r)
                sq == FSqrt(d)
            IN  IF d < 0 THEN TRUE
                ELSE /\ sq * sq = d
                     /\ (SphereHalfB(g, r) + sq) % a = 0
                     /\ (SphereHalfB(g, r) - sq) % a = 0
      [] g.kind = "flip" -> Exact(g.object, r0)
      [] g.kind = "translate" ->
            Exact(g.object, Ray(VSub(r0.origin, g.offset), r0.direction, r0.time))
      [] g.kind = "rotate" -> Exact(g.object, RotatedRay(g, r0))
      [] OTHER -> TRUE

InitBuild ==
    /\ ExtraOff
    /\ RenderOff
    /\ BoxOff
    /\ WrapOff
    /\ gphase = "scene"
    /\ objects \in Scenes(MaxObjs)
    /\ prims = objects
    /\ bvh = None
    /\ axesUsed = <<>>
    /\ range = <<0, 0>>
    /\ ray = None
    /\ recBvh = None
    /\ recList = None

InitTrace ==
    /\ ExtraOff
    /\ RenderOff
    /\ BoxOff
    /\ WrapOff
    /\ gphase = "scene"
    /\ objects \in OrderedScenes(MaxTraceObjs)
    /\ prims = objects
    /\ bvh = None
    /\ axesUsed = <<>>
    /\ range = <<0, 0>>
    /\ ray = None
    /\ recBvh = None
    /\ recList = None

\* BvhNode::new(&mut objects, 0, objects.len(), 0.0..1.0), as scenes.rs calls it
Build ==
    /\ gphase = "scene"
    /\ \E axes \in [1..Calls(Len(objects)) -> 1..3] :
          LET res == BvhNew(objects, 0, Len(objects), Exposure, axes, 0)
          IN  IF res.panic
              THEN /\ gphase' = (IF res.endless THEN "endless" ELSE "aborted")
                   /\ UNCHANGED <<objects, bvh, axesUsed>>
              ELSE /\ gphase' = "built" /\ objects' = res.objs /\ bvh' = res.node
                   /\ axesUsed' = axes
    /\ range' = <<0, Len(objects)>>
    /\ UNCHANGED <<prims, ray, recBvh, recList, rvars, bvars, wvars, xvars>>

\* One ray queried against the BVH and, for comparison, against the list.
Cast ==
    /\ gphase = "built"
    /\ \E r \in Rays :
          /\ \A i \in DOMAIN prims : Exact(prims[i], r)
          /\ ray' = r
          /\ recBvh' = Hit(bvh, r, TMin, TMax)
          /\ recList' = ObjectsHit(prims, r, TMin, TMax)
    /\ gphase' = "cast"
    /\ UNCHANGED <<objects, prims, bvh, axesUsed, range, rvars, bvars, wvars, xvars>>

NextBuild == Build

SpecBuild == InitBuild /\ [][NextBuild]_vars

\* The list of C23: six small spheres whose order on X is the reverse of
\* their order on Y
SixSpheres == [i \in 1..6 |-> SphereNew(Vec(10 * i, -10 * i, 0), 1, i)]

InitRange ==
    /\ ExtraOff
    /\ RenderOff
    /\ BoxOff
    /\ WrapOff
    /\ gphase = "scene"
    /\ objects \in Scenes(MaxRangeObjs) \cup {SixSpheres}
    /\ prims = objects
    /\ bvh = None
    /\ axesUsed = <<>>
    /\ range = <<0, 0>>
    /\ ray = None
    /\ recBvh = None
    /\ recList = None

\* BvhNode::new(&mut objects, start, end, 0.0..1.0) for any range of the list
BuildRange ==
    /\ gphase = "scene"
    /\ \E start \in 0..Len(objects), end \in 0..Len(objects) :
          /\ start < end
          /\ \E axes \in [1..Calls(end - start) -> 1..3] :
                LET res == BvhNew(objects, start, end, Exposure, axes, 0)
                IN  IF res.panic
                    THEN /\ gphase' = (IF res.endless THEN "endless" ELSE "aborted")
                         /\ UNCHANGED <<objects, bvh, axesUsed>>
                    ELSE /\ gphase' = "built" /\ objects' = res.objs /\ bvh' = res.node
                         /\ axesUsed' = axes
          /\ range' = <<start, end>>
    /\ UNCHANGED <<prims, ray, recBvh, recList, rvars, bvars, wvars, xvars>>

NextRange == BuildRange

SpecRange == InitRange /\ [][NextRange]_vars

NextTrace == Build \/ Cast

SpecTrace == InitTrace /\ [][NextTrace]_vars

(***************************************************************************)
(* surrounding_box on its own.                                             *)
(***************************************************************************)

\* Corner coordinates of the boxes run over 0..BoxCoord
BoxCoord == 1

Corners == (0..BoxCoord) \X (0..BoxCoord) \X (0..BoxCoord)

\* Boxes that reach the largest and the least finite f32
ExtremeBoxes ==
    {Aabb(Vec(lo, lo, lo), Vec(hi, hi, hi)) :
        lo \in {-FloatMax, FloatMax}, hi \in {FloatMax}}
    \cup {Aabb(Vec(-FloatMax, -FloatMax, -FloatMax), Vec(-FloatMax, -FloatMax, -FloatMax))}

\* The populated boxes: box_min <= box_max on every axis
Boxes ==
    {b \in {Aabb(lo, hi) : lo \in Corners, hi \in Corners} :
        \A c \in 1..3 : b.box_min[c] <= b.box_max[c]}
    \cup ExtremeBoxes

InitBox ==
    /\ ExtraOff
    /\ RenderOff
    /\ GeomOff
    /\ WrapOff
    /\ boxA \in Boxes
    /\ boxB \in Boxes
    /\ boxU = NoBox
    /\ boxAE = NoBox
    /\ boxEA = NoBox

\* surrounding_box of the two boxes, and of the first with Aabb::empty() on
\* either side
Surround ==
    /\ boxU = NoBox
    /\ boxU' = SurroundingBox(boxA, boxB)
    /\ boxAE' = SurroundingBox(boxA, AabbEmpty)
    /\ boxEA' = SurroundingBox(AabbEmpty, boxA)
    /\ UNCHANGED <<boxA, boxB, rvars, gvars, wvars, xvars>>

NextBox == Surround

SpecBox == InitBox /\ [][NextBox]_vars

(***************************************************************************)
(* The wrappers FlipFace and Translate around one object.                  *)
(***************************************************************************)

\* The offsets of the Translate wrapper
Offsets == {Vec(0, 0, 0), Vec(30, 0, 0), Vec(-10, 20, 40)}

InitWrap ==
    /\ ExtraOff
    /\ RenderOff
    /\ GeomOff
    /\ BoxOff
    /\ child \in Catalogue
    /\ wOffset \in Offsets
    /\ wray = None
    /\ recChild = None
    /\ recFlip = None
    /\ recFlipFlip = None
    /\ recBack = None

\* One ray queried against the object, against FlipFace and FlipFace of
\* FlipFace around it, and against Translate by -offset around Translate by
\* offset around it
Query ==
    /\ wray = None
    /\ \E r \in Rays :
          /\ Exact(child, r)
          /\ wray' = r
          /\ recChild' = Hit(child, r, TMin, TMax)
          /\ recFlip' = Hit(FlipFaceNew(child), r, TMin, TMax)
          /\ recFlipFlip' = Hit(FlipFaceNew(FlipFaceNew(child)), r, TMin, TMax)
          /\ recBack' = Hit(TranslateNew(TranslateNew(child, wOffset), VNeg(wOffset)),
                            r, TMin, TMax)
    /\ UNCHANGED <<child, wOffset, rvars, gvars, bvars, xvars>>

NextWrap == Query

SpecWrap == InitWrap /\ [][NextWrap]_vars

(***************************************************************************)
(* Rotate by -degrees around Rotate by degrees around one object.          *)
(***************************************************************************)

\* The angles of the Rotate wrapper
Angles == {90, 180, 270, -90}

InitTurn ==
    /\ CallOff
    /\ RenderOff
    /\ GeomOff
    /\ BoxOff
    /\ WrapOff
    /\ ColorOff
    /\ PixelOff
    /\ tChild \in Catalogue
    /\ tAxis \in 1..3
    /\ tDegrees \in Angles
    /\ tRay = None
    /\ recPlain = None
    /\ recTurn = None

\* One ray queried against the object and against the two Rotate wrappers
\* around it
QueryTurn ==
    /\ tRay = None
    /\ \E r \in Rays :
          /\ Exact(tChild, r)
          /\ tRay' = r
          /\ recPlain' = Hit(tChild, r, TMin, TMax)
          /\ recTurn' = Hit(RotateNew(tAxis, RotateNew(tAxis, tChild, tDegrees), -tDegrees),
                            r, TMin, TMax)
    /\ UNCHANGED <<tChild, tAxis, tDegrees, rvars, gvars, bvars, wvars, cvars, pvars, kvars>>

NextTurn == QueryTurn

SpecTurn == InitTurn /\ [][NextTurn]_vars

(***************************************************************************)
(* ray_color: one call and the calls nested in it.                         *)
(***************************************************************************)

\* The light aggregates: EmptyObject, and Objects lists of 0 and 1 members
Lights == {[kind |-> "EmptyObject"], [kind |-> "Objects", len |-> 0],
           [kind |-> "Objects", len |-> 1]}

\* Objects::random and EmptyObject::random: whether the call returns
\* (`choose` of an empty list is None, and `unwrap` of None panics)
RandomReturns(lights) ==
    IF lights.kind = "Objects" THEN lights.len > 0 ELSE TRUE

\* Objects::pdf_value and EmptyObject::pdf_value: whether the call returns
\* (debug_assert! panics on an empty list in a build with debug assertions)
PdfValueReturns(lights, debug) ==
    IF lights.kind = "Objects" THEN lights.len > 0 \/ ~debug ELSE TRUE

\* What world.hit and rec.material.scatter can give one invocation: no hit,
\* a hit that does not scatter, Reflection::Scatter, Reflection::Specular
Outcomes == {"miss", "emitted", "Scatter", "Specular"}

\* The backgrounds, in sixteenths: black, white and a sky blue
Backgrounds == {BLACK, <<16, 16, 16>>, <<11, 13, 16>>}

\* Color * Color and Color / f32, channel by channel
CMul(a, b) == [c \in 1..3 |-> FMul(a[c], b[c])]
CDiv(a, d) == [c \in 1..3 |-> FDiv(a[c], d)]

\* rec.material.color_emitted: black, or the colour of a light (sixteenths)
EmittedColours == {BLACK, <<64, 64, 64>>}

\* scatter_rec.attenuation, as factors
Albedo == <<1, 1, 0>>

\* rec.material.scattering_pdf(..) and the value of the material's pdf for
\* the scattered direction, in one unit
ScatteringPdf == 2
MaterialPdf == 2

\* The value of a light's pdf for the scattered direction, in the same unit
LightPdf == 2

\* Objects::pdf_value and EmptyObject::pdf_value: the empty list gives
\* 0.0 / 0.0, EmptyObject 0.0
LightsPdfValue(lights) ==
    IF lights.kind = "EmptyObject" THEN 0
    ELSE IF lights.len = 0 THEN NaNv
    ELSE LightPdf

\* MixturePdf::value: 0.5 * p0.value + 0.5 * p1.value
MixtureValue(p0, p1) == FAdd(FDiv(p0, 2), FDiv(p1, 2))

\* MixturePdf::generate: the pdf that generates the direction, by rng.gen_bool
MixtureGenerate(rd) == IF rd THEN "lights" ELSE "material"

\* The value of the arm Reflection::Specular, rc the nested call's value
SpecularValue(frame, rc) == CMul(frame.attenuation, rc)

\* The value of the arm Reflection::Scatter, rc the nested call's value
ScatterValue(frame, rc) ==
    AddColour(frame.emitted,
              CDiv(CMul(VScale(frame.scattering_pdf, frame.attenuation), rc),
                   frame.pdf_val))

\* A variant of NestedDepth: the recursive call passes depth unchanged
NestedDepthSame(depth) == depth

\* The `depth` argument of the recursive calls
NestedDepth(depth) == depth - 1

InitColor ==
    /\ CallOff
    /\ RenderOff
    /\ GeomOff
    /\ BoxOff
    /\ WrapOff
    /\ TurnOff
    /\ PixelOff
    /\ cDepth \in 0..MaxDepth
    /\ cLights \in Lights
    /\ cDebug \in BOOLEAN
    /\ cStack = <<>>
    /\ cArg = cDepth
    /\ cPhase = "call"
    /\ cCalls = 0
    /\ cValue = BLACK

\* One invocation of ray_color runs up to its return or its recursive call
RayColor ==
    /\ cPhase = "call"
    /\ Len(cStack) <= MaxDepth + 1
    /\ cCalls' = cCalls + 1
    /\ IF cArg = 0
       THEN cPhase' = "return" /\ cValue' = BLACK /\ UNCHANGED <<cStack, cArg>>
       ELSE \E outcome \in Outcomes, rd \in BOOLEAN, emitted \in EmittedColours,
               background \in Backgrounds :
              CASE outcome = "miss" ->
                     cPhase' = "return" /\ cValue' = background /\ UNCHANGED <<cStack, cArg>>
                [] outcome = "emitted" ->
                     cPhase' = "return" /\ cValue' = emitted /\ UNCHANGED <<cStack, cArg>>
                [] outcome = "Scatter" ->
                     \* mixture_pdf.generate, then mixture_pdf.value
                     IF (rd /\ ~RandomReturns(cLights)) \/ ~PdfValueReturns(cLights, cDebug)
                     THEN cPhase' = "panic" /\ UNCHANGED <<cStack, cArg, cValue>>
                     ELSE /\ cStack' = Append(cStack,
                                 [depth |-> cArg, reflection |-> outcome, emitted |-> emitted,
                                  attenuation |-> Albedo, scattering_pdf |-> ScatteringPdf,
                                  source |-> MixtureGenerate(rd),
                                  pdf_val |-> MixtureValue(LightsPdfValue(cLights), MaterialPdf)])
                          /\ cArg' = NestedDepth(cArg)
                          /\ cPhase' = "call"
                          /\ UNCHANGED cValue
                [] outcome = "Specular" ->
                     /\ cStack' = Append(cStack,
                            [depth |-> cArg, reflection |-> outcome, emitted |-> emitted,
                             attenuation |-> Albedo])
                     /\ cArg' = NestedDepth(cArg)
                     /\ cPhase' = "call"
                     /\ UNCHANGED cValue
    /\ UNCHANGED <<cDepth, cLights, cDebug, rvars, gvars, bvars, wvars, tvars, pvars, kvars>>

\* The invocation that ran returns to the one that called it, which
\* computes its own value and returns
Return ==
    /\ cPhase = "return"
    /\ IF cStack = <<>>
       THEN cPhase' = "done" /\ UNCHANGED <<cStack, cValue>>
       ELSE /\ cStack' = SubSeq(cStack, 1, Len(cStack) - 1)
            /\ cPhase' = "return"
            /\ cValue' = IF cStack[Len(cStack)].reflection = "Scatter"
                         THEN ScatterValue(cStack[Len(cStack)], cValue)
                         ELSE SpecularValue(cStack[Len(cStack)], cValue)
    /\ UNCHANGED <<cDepth, cLights, cDebug, cArg, cCalls, rvars, gvars, bvars, wvars, tvars, pvars, kvars>>

NextColor == RayColor \/ Return

SpecColor == InitColor /\ [][NextColor]_vars

\* The scheduler runs the thread: a step that can be taken is taken
FairColor == SpecColor /\ WF_vars(NextColor)

(***************************************************************************)
(* render: the closure of one pixel, sample by sample, and write_color.    *)
(***************************************************************************)

\* What ray_color returns for a camera ray that hits something, in
\* sixteenths: radiance is not negative; a channel can be NaN or infinite
HitColours == {<<1, 4, 9>>, <<NaNv, 4, 9>>, <<1, NaNv, NaNv>>,
               <<NaNv, NaNv, NaNv>>, <<PInf, 0, 4>>}

\* The samples are placed with f32 arithmetic: a number below 4 is counted
\* in 2^-24ths, and a f32 holds 24 significant bits of it.
Ulps == 16777216

\* The spacing of the f32 numbers around x (x in 2^-24ths)
RECURSIVE Spacing(_)
Spacing(x) == IF x < Ulps THEN 1 ELSE 2 * Spacing(x \div 2)

\* The f32 nearest to x, ties to the even significand
RoundF32(x) ==
    LET ulp == Spacing(x)
        q == x \div ulp
        rest == x % ulp
    IN  IF 2 * rest > ulp \/ (2 * rest = ulp /\ q % 2 = 1) THEN (q + 1) * ulp ELSE q * ulp

\* a + b in f32
AddF32(a, b) == RoundF32(a + b)

\* rng.gen::<Float>(): a multiple of 2^-24 in [0, 1); the least, the second,
\* the middle and the greatest of them
RandomDraws == {0, 1, Ulps \div 2, Ulps - 1}

InitPixel ==
    /\ CallOff
    /\ RenderOff
    /\ GeomOff
    /\ BoxOff
    /\ WrapOff
    /\ TurnOff
    /\ ColorOff
    /\ pSpp \in 1..MaxSamples
    /\ pBackground \in Backgrounds
    /\ pIdx = 0
    /\ pLast = BLACK
    /\ pAcc = BLACK
    /\ pMiss = TRUE
    /\ pBytes = <<>>
    /\ pPhase = "sample"
    /\ pCell = <<0, 0>>
    /\ pOffset = <<0, 0>>

\* One iteration of the inner loop `for t in 0..n`: ray_color, the NaN
\* guards and `pixel_color += rc`
Sample ==
    /\ pPhase = "sample"
    /\ pIdx < SamplesPerAxis(pSpp) * SamplesPerAxis(pSpp)
    /\ \E miss \in BOOLEAN :
          \E rc \in (IF miss THEN {pBackground} ELSE HitColours) :
             /\ pLast' = rc
             /\ pAcc' = AddColour(pAcc, NanGuard(rc))
             /\ pMiss' = (pMiss /\ miss)
    /\ LET n == SamplesPerAxis(pSpp)
           s == pIdx \div n
           t == pIdx % n
       IN  \E ru \in RandomDraws, rv \in RandomDraws :
              /\ pCell' = <<s, t>>
              /\ pOffset' = <<AddF32(s * Ulps, ru), AddF32(t * Ulps, rv)>>
    /\ pIdx' = pIdx + 1
    /\ UNCHANGED <<pSpp, pBackground, pBytes, pPhase, rvars, gvars, bvars, wvars, tvars, cvars, kvars>>

\* The loops are over: the closure returns pixel_color and write_color
\* encodes it
Encode ==
    /\ pPhase = "sample"
    /\ pIdx = SamplesPerAxis(pSpp) * SamplesPerAxis(pSpp)
    /\ pBytes' = WriteColor(<<>>, pAcc, pSpp)
    /\ pPhase' = "written"
    /\ UNCHANGED <<pSpp, pBackground, pIdx, pLast, pAcc, pMiss, pCell, pOffset, rvars, gvars, bvars, wvars, tvars, cvars, kvars>>

NextPixel == Sample \/ Encode

SpecPixel == InitPixel /\ [][NextPixel]_vars

(***************************************************************************)
(* Constructors and Dielectric::scatter, one call each.                    *)
(***************************************************************************)

\* Metal::new
MetalNew(albedo, fuzz) == [kind |-> "metal", albedo |-> albedo, fuzz |-> fuzz]

\* The colour ONE (white), in sixteenths
ONE == <<16, 16, 16>>

\* v.reflect(n): v - 2 * dot(v, n) * n
Reflect(v, n) == VSub(v, VScale(FMul(2, Dot(v, n)), n))

\* v.refract(n, ni_over_nt), ni_over_nt the fraction eta[1] / eta[2]: None
\* when eta * sin(theta) > 1, that is eta^2 * (1 - dt^2) > 1 with
\* dt = dot(v, n) / |v|; else Some of the refracted direction, which is kept
\* as the triple it is computed from
Refract(v, n, eta) ==
    IF eta[1] * eta[1] * (LengthSquared(v) - Dot(v, n) * Dot(v, n))
          > eta[2] * eta[2] * LengthSquared(v)
    THEN [some |-> FALSE]
    ELSE [some |-> TRUE, v |-> <<"refracted", v, n, eta>>]

\* A variant of Dielectric::scatter that absorbs the ray when it cannot
\* refract
DielectricScatterAbsorbs(ir, r_in, hit_record, below) ==
    LET outward_normal == IF Dot(r_in.direction, hit_record.normal) > 0
                          THEN VNeg(hit_record.normal) ELSE hit_record.normal
        ni_over_nt == IF Dot(r_in.direction, hit_record.normal) > 0
                      THEN ir ELSE <<ir[2], ir[1]>>
        refracted == Refract(r_in.direction, outward_normal, ni_over_nt)
    IN  IF refracted.some
        THEN [some |-> TRUE, attenuation |-> ONE,
              ray |-> [origin |-> hit_record.p,
                       direction |-> IF below THEN refracted.v
                                     ELSE Reflect(r_in.direction, hit_record.normal)]]
        ELSE [some |-> FALSE]

\* Dielectric::scatter with ir the fraction ir[1] / ir[2].  The sample r
\* and reflect_prob = schlick(cosine, ir) enter through the guard
\* `reflect_prob <= r` alone: `below` is its value.
DielectricScatter(ir, r_in, hit_record, below) ==
    LET reflected == Reflect(r_in.direction, hit_record.normal)
        attenuation == ONE
        outward_normal == IF Dot(r_in.direction, hit_record.normal) > 0
                          THEN VNeg(hit_record.normal) ELSE hit_record.normal
        ni_over_nt == IF Dot(r_in.direction, hit_record.normal) > 0
                      THEN ir ELSE <<ir[2], ir[1]>>
        refracted == Refract(r_in.direction, outward_normal, ni_over_nt)
    IN  IF refracted.some /\ below
        THEN [some |-> TRUE, attenuation |-> attenuation,
              ray |-> [origin |-> hit_record.p, direction |-> refracted.v]]
        ELSE [some |-> TRUE, attenuation |-> attenuation,
              ray |-> [origin |-> hit_record.p, direction |-> reflected]]

\* The radii handed to the sphere constructors
Radii == {-4, 0, 5}

\* The fuzz handed to Metal::new, in sixteenths: below 0, in [0,1], above 1
Fuzzes == {-8, 0, 5, 16, 24}

\* The refraction indices, as fractions: glass, and its inverse
Indices == {<<3, 2>>, <<2, 3>>}

\* The unit normals along the axes
Normals == {n \in Directions : LengthSquared(n) = 1}

SphereCalls ==
    {<<"Sphere::new", [center0 |-> c, radius |-> r, material |-> 1]>> :
        c \in {Vec(0, 0, 0), Vec(30, 0, 0)}, r \in Radii}
    \cup
    {<<"Sphere::new_moving",
       [center0 |-> c, center1 |-> Vec(0, 5, 0), radius |-> r, material |-> 1,
        time_range |-> <<0, 1>>]>> :
        c \in {Vec(0, 0, 0), Vec(30, 0, 0)}, r \in Radii}

MetalCalls ==
    {<<"Metal::new", [albedo |-> <<13, 10, 3>>, fuzz |-> f]>> : f \in Fuzzes}

ScatterCalls ==
    {<<"Dielectric::scatter",
       [ir |-> i, r_in |-> [origin |-> Vec(0, 0, 0), direction |-> d],
        hit_record |-> [p |-> Vec(0, 0, 0), normal |-> n], below |-> b]>> :
        i \in Indices, d \in Directions, n \in Normals, b \in BOOLEAN}

\* Boxes and rays for Aabb::hit: rays from three origins along the grid
\* directions, against a box off the axes and a box around the origin
HitBoxCalls ==
    {<<"Aabb::hit", [box |-> b, r |-> Ray(o, d, 0), t_min |-> TMin, t_max |-> TMax]>> :
        b \in {Aabb(Vec(10, 10, -5), Vec(20, 20, 5)), Aabb(Vec(-10, -10, -10), Vec(10, 10, 10))},
        o \in {Vec(0, 0, 0), Vec(0, -15, 0), Vec(-30, 0, 0)},
        d \in Directions}

\* Probability densities are counted in thousandths: 1.0 and PI
PdfOne == 1000
PI == 3142

\* dot(direction.normalize(), w) in thousandths, for a unit vector w: NaN for
\* the zero direction, whose normalize() divides by zero
Cosine(direction, w) ==
    LET d == Dot(direction, w)
        len2 == LengthSquared(direction)
    IN  IF len2 = 0 \/ IsNaN(d) THEN NaNv
        ELSE IF d < 0 THEN -SqrtBetween((d * d * 1000000) \div len2, 0, PdfOne)
        ELSE SqrtBetween((d * d * 1000000) \div len2, 0, PdfOne)

\* A variant of CosinePdfValue: no density below the horizon
CosinePdfValueZero(w, direction) ==
    LET cosine == Cosine(direction, w)
    IN  IF FLe(cosine, 0) THEN 0 ELSE FDiv(FMul(cosine, PdfOne), PI)

\* CosinePdf::value, for the basis whose normal is w
CosinePdfValue(w, direction) ==
    LET cosine == Cosine(direction, w)
    IN  IF FLe(cosine, 0) THEN PdfOne ELSE FDiv(FMul(cosine, PdfOne), PI)

\* Sphere::pdf_value.  cos_theta_max is NaN for an origin inside the sphere,
\* and the solid angle rounds to 0 for a sphere far away.
SpherePdfValue(s, o, v) ==
    IF SphereHit(s, Ray(o, v, 0), TMin, TMax).hit
    THEN LET d2 == LengthSquared(VSub(s.center0, o))
             under == IF d2 = 0 THEN NInf
                      ELSE 1000000 - ((s.radius * s.radius * 1000000) \div d2)
             cos_theta_max == IF under = NInf \/ under < 0 THEN NaNv
                              ELSE SqrtBetween(under, 0, PdfOne)
             solid_angle == IF IsNaN(cos_theta_max) THEN NaNv
                            ELSE (2 * PI * (PdfOne - cos_theta_max)) \div PdfOne
         IN  FDiv(FMul(PdfOne, PdfOne), solid_angle)
    ELSE PdfOne

\* Rect::pdf_value.  A hit whose t is NaN (0/0 in Rect::hit) passes every
\* comparison of Rect::hit and gives a NaN density.
RectPdfValue(g, o, v) ==
    LET rec == RectHit(g, Ray(o, v, 0), TMin, TMax)
    IN  IF rec.hit
        THEN LET area == (g.p1 - g.p0) * (g.q1 - g.q0)
                 cosine == Cosine(v, rec.normal)
             IN  IF IsNaN(rec.t) \/ IsNaN(cosine) THEN NaNv
                 ELSE IF cosine = 0 THEN PInf
                 ELSE LET distance_squared == rec.t * rec.t * LengthSquared(v)
                          abs == IF cosine < 0 THEN -cosine ELSE cosine
                      IN  (((distance_squared * PdfOne) \div area) * PdfOne) \div abs
        ELSE 0

\* Bases and directions for CosinePdf::value: the normal along an axis, the
\* directions of the grid and the zero vector
CosineCalls ==
    {<<"CosinePdf::value", [w |-> w, direction |-> d]>> :
        w \in {UnitVec(a) : a \in 1..3} \cup {VNeg(UnitVec(a)) : a \in 1..3},
        d \in Directions \cup {Vec(0, 0, 0)}}

\* Spheres and rectangles of the catalogue asked for the density of the
\* direction of a ray
PdfValueCalls ==
    {<<(IF g.kind = "sphere" THEN "Sphere::pdf_value" ELSE "Rect::pdf_value"),
       [object |-> g, o |-> r.origin, v |-> r.direction]>> :
        g \in {c \in Catalogue : c.kind \in {"sphere", "rect"}},
        r \in Rays}

InitCall ==
    /\ RenderOff
    /\ GeomOff
    /\ BoxOff
    /\ WrapOff
    /\ TurnOff
    /\ ColorOff
    /\ PixelOff
    /\ \E call \in SphereCalls \cup MetalCalls \cup ScatterCalls \cup HitBoxCalls
                    \cup CosineCalls \cup {c \in PdfValueCalls : Exact(c[2].object, Ray(c[2].o, c[2].v, 0))} :
          kFn = call[1] /\ kArgs = call[2]
    /\ kDone = FALSE
    /\ kResult = None

\* The call of Sphere::new or Sphere::new_moving
NewSphere ==
    /\ ~kDone
    /\ kFn \in {"Sphere::new", "Sphere::new_moving"}
    /\ kResult' = IF kFn = "Sphere::new"
                  THEN SphereNew(kArgs.center0, kArgs.radius, kArgs.material)
                  ELSE SphereNewMoving(kArgs.center0, kArgs.center1, kArgs.radius,
                                       kArgs.material, kArgs.time_range)
    /\ kDone' = TRUE
    /\ UNCHANGED <<kFn, kArgs, rvars, gvars, bvars, wvars, tvars, cvars, pvars>>

\* The call of Metal::new
NewMetal ==
    /\ ~kDone
    /\ kFn = "Metal::new"
    /\ kResult' = MetalNew(kArgs.albedo, kArgs.fuzz)
    /\ kDone' = TRUE
    /\ UNCHANGED <<kFn, kArgs, rvars, gvars, bvars, wvars, tvars, cvars, pvars>>

\* The call of Dielectric::scatter
Scatter ==
    /\ ~kDone
    /\ kFn = "Dielectric::scatter"
    /\ kResult' = DielectricScatter(kArgs.ir, kArgs.r_in, kArgs.hit_record, kArgs.below)
    /\ kDone' = TRUE
    /\ UNCHANGED <<kFn, kArgs, rvars, gvars, bvars, wvars, tvars, cvars, pvars>>

\* The call of Aabb::hit
HitBox ==
    /\ ~kDone
    /\ kFn = "Aabb::hit"
    /\ kResult' = AabbHit(kArgs.box, kArgs.r, kArgs.t_min, kArgs.t_max)
    /\ kDone' = TRUE
    /\ UNCHANGED <<kFn, kArgs, rvars, gvars, bvars, wvars, tvars, cvars, pvars>>

\* The call of CosinePdf::value
Value ==
    /\ ~kDone
    /\ kFn = "CosinePdf::value"
    /\ kResult' = CosinePdfValue(kArgs.w, kArgs.direction)
    /\ kDone' = TRUE
    /\ UNCHANGED <<kFn, kArgs, rvars, gvars, bvars, wvars, tvars, cvars, pvars>>

\* The call of Sphere::pdf_value or Rect::pdf_value
PdfValue ==
    /\ ~kDone
    /\ kFn \in {"Sphere::pdf_value", "Rect::pdf_value"}
    /\ kResult' = (IF kFn = "Sphere::pdf_value"
                   THEN SpherePdfValue(kArgs.object, kArgs.o, kArgs.v)
                   ELSE RectPdfValue(kArgs.object, kArgs.o, kArgs.v))
    /\ kDone' = TRUE
    /\ UNCHANGED <<kFn, kArgs, rvars, gvars, bvars, wvars, tvars, cvars, pvars>>

NextCall == NewSphere \/ NewMetal \/ Scatter \/ HitBox \/ Value \/ PdfValue

SpecCall == InitCall /\ [][NextCall]_vars

(***************************************************************************)
(* Claims about render.                                                    *)
(***************************************************************************)

\* C1: when render returns, with width >= 1 and height >= 1, the buffer holds
\* exactly 3*width*height bytes, and the pixel computed for column i of
\* scanline jj occupies the three bytes from offset 3*((height-1-jj)*width + i),
\* as its R, G and B encodings in that order.
C1_OutputLayout ==
    (pc = "done" /\ width >= 1 /\ height >= 1) =>
        /\ Len(data) = 3 * width * height
        /\ \A i \in 0..(width - 1), jj \in 0..(height - 1) :
              \E t \in computed :
                 /\ t[1] = i /\ t[2] = jj
                 /\ LET base == 3 * ((height - 1 - jj) * width + i)
                    IN  /\ data[base + 1] = ToU8(t[3][1], spp)
                        /\ data[base + 2] = ToU8(t[3][2], spp)
                        /\ data[base + 3] = ToU8(t[3][3], spp)

\* A finished render of an image at least 2 x 2 with a pixel that is not black.
C1_Witness ==
    /\ pc = "done" /\ width >= 2 /\ height >= 2
    /\ \E t \in computed : t[3] # BLACK /\ t[1] = 1 /\ t[2] = 0

\* C2: whatever the order in which the workers finish the pixels of a
\* scanline, pixels are appended to the buffer in ascending pixel index within
\* a scanline, and the scanlines in the order height-1 down to 0: the x-th
\* pixel appended is pixel (x-1) mod width of scanline height-1 - (x-1) div width.
C2_AppendOrder ==
    \A x \in 1..Len(appended) :
        appended[x] = <<(x - 1) % width, height - 1 - ((x - 1) \div width)>>

\* The workers finished a scanline in descending order of pixel index, and
\* the whole scanline has been appended.
C2_Witness ==
    /\ pc = "write" /\ width >= 2 /\ k > Len(scanline)
    /\ finished[1] > finished[2]
    /\ Len(appended) >= 2

\* C3: every step that changes the image buffer is a step of the serial
\* driver's write loop, taken when every pixel of the current scanline has
\* been computed and collected; it appends the three bytes of one pixel and
\* no worker result changes in the same step.  (Workers never write the
\* buffer, and there is one writer.)
C3_SerialWrites ==
    [][data' # data =>
          /\ pc = "write" /\ pc' = "write"
          /\ Pending = {}
          /\ Len(scanline) = width
          /\ slots' = slots /\ finished' = finished
          /\ Len(data') = Len(data) + 3
          /\ SubSeq(data', 1, Len(data)) = data]_vars

\* The driver has appended a pixel of the second scanline of an image.
C3_Witness ==
    /\ pc = "write" /\ k > 1 /\ width >= 2 /\ j < height - 1
    /\ Len(data) > 3 * width

(***************************************************************************)
(* Claims about the BVH.                                                   *)
(***************************************************************************)

\* The child slots of the tree under a node that hold a primitive
RECURSIVE LeafSlots(_)
LeafSlots(node) ==
    UNION {IF ch.g.kind = "bvh" THEN LeafSlots(ch.g) ELSE {ch} : ch \in {node.left, node.right}}

\* The nodes of the tree under (and including) a node
RECURSIVE Nodes(_)
Nodes(g) ==
    IF g.kind = "bvh" THEN {g} \cup Nodes(g.left.g) \cup Nodes(g.right.g) ELSE {}

\* box a contains box b
Contains(a, b) ==
    \A c \in 1..3 : FLe(a.box_min[c], b.box_min[c]) /\ FLe(b.box_max[c], a.box_max[c])

\* C4: for a BVH built over the whole of a non-empty list and any ray,
\* BvhNode::hit returns a hit iff the sweep Objects::hit over the list does,
\* and then with the same t, the least t of the primitives that are hit.
C4_BvhMatchesSweep ==
    (gphase = "cast" /\ Len(prims) >= 1) =>
        /\ recBvh.hit <=> recList.hit
        /\ recBvh.hit => recBvh.t = recList.t
        /\ recList.hit =>
              \A i \in DOMAIN prims :
                  LET h == Hit(prims[i], ray, TMin, TMax)
                  IN  h.hit => FLe(recList.t, h.t)

\* C5: after BvhNode::new(objects, 0, n, ..) with n = objects.len() >= 1, the
\* list is empty, every primitive of the input is held by exactly one
\* allocation at the leaves of the tree (and the leaves hold nothing else),
\* and a node over one object has the same allocation as left and right child.
C5_ConsumesList ==
    (gphase = "built" /\ Len(prims) >= 1) =>
        /\ objects = <<>>
        /\ \A i \in DOMAIN prims :
              Cardinality({l.arc : l \in {x \in LeafSlots(bvh) : x.g = prims[i]}}) = 1
        /\ \A l \in LeafSlots(bvh) : \E i \in DOMAIN prims : l.g = prims[i]
        /\ Cardinality({l.arc : l \in LeafSlots(bvh)}) = Len(prims)
        /\ \A n \in Nodes(bvh) :
              Cardinality({l.g : l \in LeafSlots(n)}) = 1 =>
                  n.left.arc = n.right.arc /\ n.left.g = n.right.g

\* A tree over three primitives or more, whose left subtree is a node over
\* one object.
C5_Witness ==
    /\ gphase = "built" /\ Len(prims) >= 3 /\ objects = <<>>
    /\ bvh.left.g.kind = "bvh"
    /\ bvh.left.g.left.g.kind # "bvh"
    /\ bvh.left.g.left.arc = bvh.left.g.right.arc

\* C6: every node BvhNode::new produces, at every level of the tree, has a
\* bbox that contains the bounding box of its left child and the bounding
\* box of its right child.
C6_BoxContainsChildren ==
    gphase = "built" =>
        \A n \in Nodes(bvh) :
            /\ Contains(n.bbox, BoundingBox(n.left.g, Exposure))
            /\ Contains(n.bbox, BoundingBox(n.right.g, Exposure))

\* A tree of two levels whose root box is larger than the box of either child.
C6_Witness ==
    /\ gphase = "built" /\ Len(prims) >= 3
    /\ bvh.right.g.kind = "bvh"
    /\ bvh.bbox # BoundingBox(bvh.left.g, Exposure)
    /\ bvh.bbox # BoundingBox(bvh.right.g, Exposure)
    /\ bvh.right.g.bbox # BoundingBox(bvh.right.g.left.g, Exposure)

\* C7: for populated boxes a and b, surrounding_box(a, b) contains a and
\* contains b, and surrounding_box(a, Aabb::empty()) and
\* surrounding_box(Aabb::empty(), a) are both a.
C7_SurroundingBox ==
    boxU # NoBox =>
        /\ Contains(boxU, boxA)
        /\ Contains(boxU, boxB)
        /\ boxAE = boxA
        /\ boxEA = boxA

\* Two boxes neither of which contains the other, and their surrounding box.
C7_Witness ==
    /\ boxU # NoBox /\ boxAE # NoBox
    /\ ~Contains(boxA, boxB) /\ ~Contains(boxB, boxA)
    /\ boxU # boxA /\ boxU # boxB

(***************************************************************************)
(* Claims about hit records.                                               *)
(***************************************************************************)

\* The outward geometric normal, in world space, of a sphere or a rectangle
\* at the point p of its surface
OutwardNormal(g, p) ==
    IF g.kind = "sphere"
    THEN TransposeTransformVector3(g.inv_transform,
             VSub(TransformPoint3(g.inv_transform, p), SphereCenter(g, 0)))
    ELSE TransposeTransformVector3(g.inv_transform, UnitVec(g.axis))

\* C8: for every ray and every hit of a sphere, a rectangle, a cuboid or a
\* BVH, whatever transform the primitive carries, the recorded normal does
\* not point along the ray (dot(ray.direction, normal) <= 0), and front_face
\* is true exactly when the outward normal of the surface opposed the ray.
C8_NormalOpposesRay ==
    gphase = "cast" =>
        \A rec \in {recBvh, recList} :
            rec.hit =>
                /\ Dot(ray.direction, rec.normal) <= 0
                /\ \A i \in DOMAIN prims :
                      (prims[i].material = rec.material /\ prims[i].kind \in {"sphere", "rect"}) =>
                          (rec.front_face <=> Dot(ray.direction, OutwardNormal(prims[i], rec.p)) < 0)

\* C9: FlipFace::hit misses exactly when the wrapped object misses, and on a
\* hit returns the wrapped object's record with front_face negated and p,
\* normal, t, u, v and material unchanged; FlipFace of FlipFace returns the
\* record of the wrapped object itself.
C9_FlipFace ==
    wray # None =>
        /\ recFlip.hit <=> recChild.hit
        /\ recChild.hit =>
              /\ recFlip.front_face = ~recChild.front_face
              /\ recFlip.p = recChild.p
              /\ recFlip.normal = recChild.normal
              /\ recFlip.t = recChild.t
              /\ recFlip.u = recChild.u
              /\ recFlip.v = recChild.v
              /\ recFlip.material = recChild.material
        /\ recFlipFlip = recChild

\* A ray that hits the wrapped object on its front face.
C9_Witness ==
    /\ wray # None /\ recChild.hit /\ recChild.front_face
    /\ recFlip.hit /\ ~recFlip.front_face /\ recFlipFlip.hit

\* C10: for every offset, object and ray, Translate by -offset around
\* Translate by offset around the object returns what the object returns:
\* the same hit or miss, p, normal, t, u, v and front_face.
C10_TranslateThereAndBack ==
    wray # None =>
        /\ recBack.hit <=> recChild.hit
        /\ recChild.hit =>
              /\ recBack.p = recChild.p
              /\ recBack.normal = recChild.normal
              /\ recBack.t = recChild.t
              /\ recBack.u = recChild.u
              /\ recBack.v = recChild.v
              /\ recBack.front_face = recChild.front_face

(***************************************************************************)
(* Claims about Rotate.                                                    *)
(***************************************************************************)

\* C11: a ray queried against Rotate by -degrees around Rotate by degrees
\* around an object, both about the same axis, misses exactly when the object
\* alone is missed, and on a hit the record has the same point and the same
\* normal as the object alone returns.
C11_RotateThereAndBack ==
    tRay # None =>
        /\ recTurn.hit <=> recPlain.hit
        /\ recPlain.hit =>
              /\ recTurn.p = recPlain.p
              /\ recTurn.normal = recPlain.normal

(***************************************************************************)
(* Claims about ray_color.                                                 *)
(***************************************************************************)

\* C12: an invocation with depth 0 returns without a recursive call, every
\* nested invocation runs with the depth of its caller minus one, so a call
\* with depth d has at most d invocations nested in it, and it ends (returns
\* or panics).
C12_DepthBoundsRecursion ==
    /\ [](cPhase # "off" =>
            /\ Len(cStack) <= cDepth
            /\ cCalls <= cDepth + 1
            /\ \A i \in 1..Len(cStack) : cStack[i].depth = cDepth - (i - 1)
            /\ cPhase = "call" => cArg = cDepth - Len(cStack))
    /\ <>(cPhase \in {"done", "panic"})

\* A call with depth MaxDepth reached its last nested invocation, which
\* returned black, and every invocation has returned
C12_Witness ==
    /\ cPhase = "done"
    /\ cDepth = MaxDepth
    /\ cCalls = MaxDepth + 1

(***************************************************************************)
(* Claims about the samples of one pixel.                                  *)
(***************************************************************************)

\* C13: for every samples_per_pixel >= 1, a pixel whose camera rays all
\* miss is written as the encoding of the background itself: each byte is
\* 255.999 * sqrt(background channel), truncated.
C13_BackgroundPixel ==
    (pPhase = "written" /\ pMiss) =>
        pBytes = <<ToU8(pBackground[1], 1), ToU8(pBackground[2], 1),
                   ToU8(pBackground[3], 1)>>

\* C14: no channel of pixel_color is ever NaN, and each sample is added
\* channel by channel: a NaN channel adds 0, every other channel adds the
\* value ray_color returned.
C14_NoNaNAccumulated ==
    /\ [](\A c \in 1..3 : ~IsNaN(pAcc[c]))
    /\ [][pIdx' = pIdx + 1 =>
            \A c \in 1..3 :
               pAcc'[c] = FAdd(pAcc[c], IF IsNaN(pLast'[c]) THEN 0 ELSE pLast'[c])]_vars

\* A sample with NaN in one channel only was added to a pixel_color that
\* already held a sample
C14_Witness ==
    /\ pIdx >= 2
    /\ IsNaN(pLast[1]) /\ ~IsNaN(pLast[2]) /\ pLast[2] > 0
    /\ pAcc[2] > pLast[2]

\* C15: with lights the empty aggregate (EmptyObject, or an Objects list
\* without members), ray_color does not panic, whatever the camera ray hits,
\* a material that reflects with Scatter(pdf) included.
C15_EmptyLightsNoPanic ==
    (cPhase # "off" /\ (cLights.kind = "EmptyObject" \/ cLights.len = 0)) =>
        cPhase # "panic"

(***************************************************************************)
(* Claims about BvhNode::new on short lists.                               *)
(***************************************************************************)

\* C17: BvhNode::new called with start = end, a BVH over no primitive,
\* aborts: it neither returns a node nor calls itself without end.
C17_EmptyBvhAborts ==
    (gphase \notin {"off", "scene"} /\ Len(prims) = 0) => gphase = "aborted"

\* C19: in a BvhNode built over exactly two objects, the min corner of the
\* left child's bounding box is, on the axis the call drew, less than or
\* equal to that of the right child's, equal coordinates included.
C19_TwoObjectsOrdered ==
    (gphase = "built" /\ Len(prims) = 2) =>
        FLe(BoundingBox(bvh.left.g, <<0, 0>>).box_min[axesUsed[1]],
            BoundingBox(bvh.right.g, <<0, 0>>).box_min[axesUsed[1]])

\* Two different objects whose boxes start at the same coordinate on the
\* axis drawn: the call has put the second of the list to the left
C19_Witness ==
    /\ gphase = "built"
    /\ Len(prims) = 2
    /\ BoundingBox(prims[1], <<0, 0>>).box_min[axesUsed[1]]
          = BoundingBox(prims[2], <<0, 0>>).box_min[axesUsed[1]]
    /\ bvh.left.g = prims[2]
    /\ bvh.right.g = prims[1]

(***************************************************************************)
(* Claims about constructors and Dielectric::scatter.                      *)
(***************************************************************************)

\* C16: constructing a sphere, with Sphere::new or Sphere::new_moving, with
\* a zero or negative radius aborts: no Sphere with radius <= 0 is returned.
C16_BadRadiusFatal ==
    (kDone /\ kFn \in {"Sphere::new", "Sphere::new_moving"} /\ kArgs.radius <= 0) =>
        kResult = Aborted

\* C18: for every fuzz argument, below 0 and above 1 included, the Metal
\* that Metal::new returns stores a fuzz in [0,1].
C18_FuzzClamped ==
    (kDone /\ kFn = "Metal::new") => (kResult.fuzz >= 0 /\ kResult.fuzz <= 16)

\* C20: Dielectric::scatter returns Some for every ray, hit record and
\* sample, with white attenuation; when the ray cannot refract, the scattered
\* direction is the reflection, whatever the sample.
C20_DielectricNeverAbsorbs ==
    (kDone /\ kFn = "Dielectric::scatter") =>
        LET d == kArgs.r_in.direction
            n == kArgs.hit_record.normal
            inside == Dot(d, n) > 0
            cannot == ~Refract(d, IF inside THEN VNeg(n) ELSE n,
                               IF inside THEN kArgs.ir
                               ELSE <<kArgs.ir[2], kArgs.ir[1]>>).some
        IN  /\ kResult.some
            /\ kResult.attenuation = ONE
            /\ kResult.ray.origin = kArgs.hit_record.p
            /\ cannot => kResult.ray.direction = Reflect(d, n)

\* A ray inside glass that meets the surface at 45 degrees cannot refract;
\* the sample is one that would let a refracted ray through
C20_Witness ==
    /\ kDone
    /\ kFn = "Dielectric::scatter"
    /\ kArgs.ir = <<3, 2>>
    /\ kArgs.r_in.direction = <<1, 1, 0>>
    /\ kArgs.hit_record.normal = <<1, 0, 0>>
    /\ kArgs.below
    /\ kResult.some
    /\ kResult.ray.direction = <<-1, 1, 0>>

(***************************************************************************)
(* Claims about the value ray_color returns.                               *)
(***************************************************************************)

\* C21: with lights the empty aggregate, an invocation that hits a material
\* reflecting with Scatter(material_pdf) generates the scattered direction
\* from material_pdf and divides by the value of material_pdf alone.
C21_EmptyLightsNoMixture ==
    (cPhase # "off" /\ (cLights.kind = "EmptyObject" \/ cLights.len = 0)) =>
        \A i \in 1..Len(cStack) :
           cStack[i].reflection = "Scatter" =>
              /\ cStack[i].source = "material"
              /\ cStack[i].pdf_val = MaterialPdf

\* C25: an invocation in the arm Reflection::Specular returns
\* emitted + attenuation * (the value of the nested call).
C25_SpecularAddsEmitted ==
    [][(cPhase = "return" /\ cStack # <<>>
        /\ cStack[Len(cStack)].reflection = "Specular"
        /\ Len(cStack') < Len(cStack)) =>
           cValue' = AddColour(cStack[Len(cStack)].emitted,
                               CMul(cStack[Len(cStack)].attenuation, cValue))]_vars

(***************************************************************************)
(* Claims about Aabb::hit.                                                 *)
(***************************************************************************)

\* The slab interval <<t0, t1>> of the ray on axis a
SlabInterval(box, r, a) ==
    LET inv_d == FDiv(1, r.direction[a])
        ta == FMul(FSub(box.box_min[a], r.origin[a]), inv_d)
        tb == FMul(FSub(box.box_max[a], r.origin[a]), inv_d)
    IN  IF FLt(inv_d, 0) THEN <<tb, ta>> ELSE <<ta, tb>>

\* Whether [lo, hi] shrunk by the slab intervals of the axes a..3, one after
\* the other, stays non-empty
RECURSIVE CommonInterval(_, _, _, _, _)
CommonInterval(box, r, a, lo, hi) ==
    IF a > 3 THEN TRUE
    ELSE LET t == SlabInterval(box, r, a)
             nlo == IF FGt(t[1], lo) THEN t[1] ELSE lo
             nhi == IF FLt(t[2], hi) THEN t[2] ELSE hi
         IN  IF FLe(nhi, nlo) THEN FALSE
             ELSE CommonInterval(box, r, a + 1, nlo, nhi)

\* C22: Aabb::hit returns true exactly when [t_min, t_max] and the three
\* slab intervals of the ray have a common point: the interval shrunk by one
\* axis is the one the next axis shrinks.
C22_SlabsIntersect ==
    (kDone /\ kFn = "Aabb::hit") =>
        (kResult <=> CommonInterval(kArgs.box, kArgs.r, 1, kArgs.t_min, kArgs.t_max))

\* C23: in a tree built over three objects or more, every object of the left
\* subtree has a bounding-box min on the root's axis that is at most that of
\* every object of the right subtree, and the left subtree holds
\* floor(span/2) objects.
C23_LeftBelowRight ==
    (gphase = "built" /\ range[2] - range[1] >= 3) =>
        /\ Cardinality({l.arc : l \in LeafSlots(bvh.left.g)}) = (range[2] - range[1]) \div 2
        /\ \A l \in LeafSlots(bvh.left.g), r \in LeafSlots(bvh.right.g) :
              FLe(BoundingBox(l.g, Exposure).box_min[axesUsed[1]],
                  BoundingBox(r.g, Exposure).box_min[axesUsed[1]])

\* C24: the leaves of BvhNode::new(objects, start, end, ..) hold exactly the
\* primitives that stood at positions start..end-1 of the list when the call
\* was made (start+1..end here, lists being 1-based), and no primitive from
\* outside that range.
C24_LeavesAreTheRange ==
    gphase = "built" =>
        {l.g : l \in LeafSlots(bvh)} = {prims[i] : i \in (range[1] + 1)..range[2]}

\* C26: the box Rotate::new stores for a boundable child has, on every axis,
\* box_min <= box_max, and contains all eight rotated corners of the child's
\* box.
C26_RotateBoxCoversCorners ==
    tRay # None =>
        LET rot == RotateNew(tAxis, tChild, tDegrees)
            corners == BoxCorners(BoundingBox(tChild, <<0, 1>>))
        IN  /\ \A a \in 1..3 : FLe(rot.bbox.box_min[a], rot.bbox.box_max[a])
            /\ \A i \in DOMAIN corners :
                  LET tester == RotateTester(tAxis, rot.sin, rot.cos, corners[i])
                  IN  \A a \in 1..3 : /\ FLe(rot.bbox.box_min[a], tester[a])
                                      /\ FLe(tester[a], rot.bbox.box_max[a])

\* C27: CosinePdf::value(direction) is max(0, cos theta) / pi, cos theta the
\* dot product of the normalized direction with the normal w of the basis;
\* it is 0 for every direction with cos theta <= 0.
C27_CosineDensity ==
    (kDone /\ kFn = "CosinePdf::value" /\ ~IsNaN(Cosine(kArgs.direction, kArgs.w))) =>
        kResult = CosinePdfValueZero(kArgs.w, kArgs.direction)

\* C29: Sphere::pdf_value and Rect::pdf_value return 0 for every direction
\* whose ray from the origin misses the primitive.
C29_MissHasNoDensity ==
    (/\ kDone
     /\ kFn \in {"Sphere::pdf_value", "Rect::pdf_value"}
     /\ ~Hit(kArgs.object, Ray(kArgs.o, kArgs.v, 0), TMin, TMax).hit) =>
        kResult = 0

\* C28: the pixel takes n * n samples, n = floor(sqrt(samples_per_pixel)), one
\* per cell (s, t) of 0..n-1 x 0..n-1, and the offset of the sample of cell
\* (s, t), (s + random) / n and (t + random) / n, lies in
\* [s/n, (s+1)/n) x [t/n, (t+1)/n).
\* The sums are compared with s and s + 1: the division by n, exact in f32
\* for n a power of two, is the same on both sides.
C28_SampleInItsCell ==
    LET n == SamplesPerAxis(pSpp)
    IN  /\ pPhase = "written" => pIdx = n * n
        /\ (pPhase = "sample" /\ pIdx > 0) =>
              /\ pIdx <= n * n
              /\ pCell = <<(pIdx - 1) \div n, (pIdx - 1) % n>>
              /\ pCell[1] \in 0..(n - 1) /\ pCell[2] \in 0..(n - 1)
              /\ \A c \in 1..2 : /\ pCell[c] * Ulps <= pOffset[c]
                                  /\ pOffset[c] < (pCell[c] + 1) * Ulps

\* C30: for a Sphere, Rect or Cuboid with any transform installed, every hit
\* point p that hit returns lies inside the box bounding_box returns for the
\* same primitive.
C30_HitInsideBoundingBox ==
    (wray # None /\ recChild.hit) =>
        LET b == BoundingBox(child, Exposure)
        IN  \A c \in 1..3 : FLe(b.box_min[c], recChild.p[c]) /\ FLe(recChild.p[c], b.box_max[c])

====
